---- MODULE Spec2Model ----
(***************************************************************************)
(* Canary rollout gate, its background safety loop and the serving         *)
(* handlers that consult the gate (wp-chat).                               *)
(*                                                                         *)
(* Numbers.  rollout_percentage and the user hash are floats in [0,1] in   *)
(* the source; here both are counted in units of 1/RolloutScale, so that   *)
(* "user_hash < rollout_percentage" is an integer comparison.  Error rates *)
(* are counted in percent.  Time is counted in minutes.                    *)
(***************************************************************************)
EXTENDS Integers, Sequences, FiniteSets, TLC

\* ---------------------------------------------------------------- bounds
RolloutScale == 2
MaxTime == 1

\* ------------------------------------------------------ program constants
auto_rollback_threshold == 5
min_requests_for_rollback == 100
RecentMinutes == 5

Users == {"u1", "u2", "u3"}
Actors == {"admin"}
\* percentages a caller may pass: below 0, inside [0,1], above 1
Percentages == (0 - 1) .. (RolloutScale + 1)
\* int(md5("<user>:<seed>").hexdigest()[:8], 16) / 0xffffffff for the users of
\* the model: digest 00000000 (0.0), a digest in between, digest ffffffff (1.0)
UserDigest == [u \in Users |-> CASE u = "u1" -> 0 [] u = "u2" -> 1 [] u = "u3" -> RolloutScale]
IOOutcomes == {"ok", "open_fail", "write_fail"}

VARIABLES
  config,          \* CanaryManager.config (in-memory CanaryConfig)
  config_file,     \* contents of logs/canary_config.json
  metrics_buffer,  \* CanaryManager.metrics_buffer
  user_hash,       \* what _hash_user_id returns in this process, per user
  now,             \* time.time(), minutes
  pc,              \* position of the monitoring thread in _monitor_canary
  last_iter,       \* how the latest finished iteration of the loop ended
  last_op,         \* the latest operation on the gate (log line)
  cache,           \* keys the response cache holds
  last_req,        \* the latest request a serving handler completed
  served,          \* rerank-enabled requests the handlers completed, and their errors
  rerank_call,     \* one call of the reranking stage: its arguments and what it returned
  tfidf,           \* whether this process found the lexical index when it was imported
  fn_call,         \* one call of a function of the pipeline: its arguments and its result
  slo_buffer,      \* SLOMonitor.metrics_buffer
  slo_recorded,    \* how many MetricPoints record_metric has appended so far
  slo_file,        \* how many lines logs/slo_metrics.jsonl holds
  limiter,         \* RateLimiter: rate_limits, cache/rate_limits.json, and the requests admitted so far
  lock,            \* CanaryManager.lock: "free" or the thread that holds it
  threads,         \* the threads inside a CanaryManager method: the call and how far it got
  evaluation,      \* an SLO evaluation under way: its iterator over the buffer and what it collected
  history          \* the decisions of the gate before the latest emergency stop, and the mutations since

\* what neither the gate nor the handlers touch
sideVars == <<limiter, lock, threads, evaluation, history>>

sloVars == <<fn_call, slo_buffer, slo_recorded, slo_file, sideVars>>

serveVars == <<cache, last_req, served, rerank_call, tfidf, sloVars>>

vars == <<config, config_file, metrics_buffer, user_hash, now, pc, last_iter, last_op,
          cache, last_req, served, rerank_call, tfidf, fn_call, slo_buffer, slo_recorded, slo_file,
          limiter, lock, threads, evaluation, history>>

\* ------------------------------------------------------------ CanaryConfig
CanaryConfig ==
  [ enabled |-> FALSE,
    rollout_percentage |-> 0,
    user_seed |-> "default_seed",
    emergency_stop |-> FALSE,
    last_updated |-> 0,
    updated_by |-> "system" ]

ConfigFields == DOMAIN CanaryConfig

Max(a, b) == IF a >= b THEN a ELSE b
Min(a, b) == IF a <= b THEN a ELSE b

\* json.dump(asdict(self.config)): one JSON member per dataclass field
asdict(c) == [f \in ConfigFields |-> c[f]]

NoData == [f \in {} |-> FALSE]
AbsentFile == [kind |-> "absent", data |-> NoData]
CorruptFile == [kind |-> "corrupt", data |-> NoData]

\* open(config_file, 'w') + json.dump, with every exception swallowed:
\* the file is rewritten, left as it was (open failed), or left truncated
save_config(c, file, io) ==
  CASE io = "ok" -> [kind |-> "json", data |-> asdict(c)]
    [] io = "open_fail" -> file
    [] io = "write_fail" -> CorruptFile

\* CanaryConfig(**json.load(f)): a member the dataclass does not know is a
\* TypeError, a member the file lacks takes the dataclass default; any
\* exception falls back to the defaults
load_config(file) ==
  IF file.kind # "json" THEN CanaryConfig
  ELSE IF DOMAIN file.data \subseteq ConfigFields
    THEN [f \in ConfigFields |->
            IF f \in DOMAIN file.data THEN file.data[f] ELSE CanaryConfig[f]]
  ELSE CanaryConfig

\* ---------------------------------------------------------- gate decision
\* hashlib.md5 is a fixed function of "<user>:<seed>": a new process computes
\* the values the old one did
salted_hash_in_new_process(table) ==
  [u \in DOMAIN table |-> (table[u] + 1) % (RolloutScale + 1)]

md5_in_new_process(table) == table

hash_user_id(u) == user_hash[u]

\* the emergency-stop test is missing
is_rerank_enabled_ignoring_stop(u) ==
  IF ~config.enabled THEN FALSE
  ELSE IF config.rollout_percentage <= 0 THEN FALSE
  ELSE IF config.rollout_percentage >= RolloutScale THEN TRUE
  ELSE hash_user_id(u) < config.rollout_percentage

\* the 100% shortcut is missing: every user goes through the hash comparison
is_rerank_enabled_always_hashing(u) ==
  IF config.emergency_stop THEN FALSE
  ELSE IF ~config.enabled THEN FALSE
  ELSE IF config.rollout_percentage <= 0 THEN FALSE
  ELSE hash_user_id(u) < config.rollout_percentage

is_rerank_enabled_for_user(u) ==
  IF config.emergency_stop THEN FALSE
  ELSE IF ~config.enabled THEN FALSE
  ELSE IF config.rollout_percentage <= 0 THEN FALSE
  ELSE IF config.rollout_percentage >= RolloutScale THEN TRUE
  ELSE hash_user_id(u) < config.rollout_percentage

\* --------------------------------------------------------- serving inputs
Queries == {"q", " ", ""}
Modes == {"dense", "bm25", "hybrid"}
\* what a caller may send as the mode
RequestModes == Modes \cup {"invalid"}
\* the two FastAPI applications of the repository
Apps == {"wp_chat", "legacy"}
\* the modes /generate is driven with beside the gate's mutators, and alone
GenerateModes == {"hybrid"}
AnyGenerateModes == {"dense", "hybrid", "invalid"}
DenseOutcomes == {"ok", "raise"}
LexicalOutcomes == {"ok", "not_built"}
RerankerOutcomes == {"ok", "timeout", "exception", "load_fail"}
LLMOutcomes == {"ok", "unsuccessful", "raise"}

\* what the collaborators do during one request: at most one of them fails
AllOk == [dense |-> "ok", bm25 |-> "ok", ce |-> "ok", llm |-> "ok"]
Environments ==
  { e \in [dense : DenseOutcomes, bm25 : LexicalOutcomes,
           ce : RerankerOutcomes, llm : LLMOutcomes] :
      Cardinality({f \in DOMAIN e : e[f] # "ok"}) <= 1 }
SearchEnvironments == {e \in Environments : e.llm = "ok"}

\* the reranking stage has not been called
NoCall ==
  [ phase |-> "idle", rerank |-> FALSE, diversified |-> <<>>, topk |-> 0,
    ce |-> "none", ranked |-> <<>>, rerank_status |-> FALSE, raised |-> FALSE ]

\* no request has completed yet
NoRequest ==
  [ endpoint |-> "none", query |-> "", mode |-> "none", requested |-> FALSE, consulted |-> FALSE,
    permitted |-> FALSE, invoked |-> FALSE, rerank |-> FALSE, status |-> 0,
    cache_hit |-> FALSE, fallback_used |-> FALSE, recorded |-> FALSE,
    collaborators |-> FALSE, fell_back |-> FALSE, results |-> "none", detail |-> "" ]

\* ------------------------------------------------- synthetic metrics windows
\* CanaryMetrics records (the fields _should_auto_rollback reads)
CanaryMetrics(ts, en, dis, err) ==
  [ timestamp |-> ts,
    total_requests |-> en + dis,
    rerank_enabled_requests |-> en,
    rerank_disabled_requests |-> dis,
    error_rate_enabled |-> err ]

\* nothing in the repository appends to metrics_buffer (record_canary_metric is
\* a stub); a process starts with an empty buffer or with a window supplied from
\* outside, as the auto-rollback test of the specification does
GateWindows ==
  { <<>>,
    <<CanaryMetrics(0, 100, 0, 6)>>,
    <<CanaryMetrics(0, 50, 0, 6)>> }

\* windows for the rollback rule: up to MaxWindow records in arrival order, each
\* fresh, exactly RecentMinutes old, or older; a full-size record just above
\* (6%) and at (5%) the threshold, a half-size record, and a record in which
\* few of the requests were reranked
MaxWindow == 2
SampleTimes == {0, 0 - RecentMinutes, 0 - RecentMinutes - 1}
SampleRecords ==
  { CanaryMetrics(ts, x[1], x[2], x[3]) :
      ts \in SampleTimes,
      x \in { <<100, 0, 6>>, <<100, 0, 5>>, <<50, 0, 6>>, <<10, 90, 40>> } }
RollbackWindows ==
  { w \in UNION { [1 .. n -> SampleRecords] : n \in 0 .. MaxWindow } :
      \A i \in 1 .. (Len(w) - 1) : w[i].timestamp <= w[i + 1].timestamp }

\* ------------------------------------------------------------------- Init
\* no function of the pipeline has been called
NoFn == [fn |-> "none", phase |-> "idle"]

\* RateLimiter.__init__ with no file to load, a free lock, no call under way
NoLimiter == [rate_limits |-> NoData, file |-> "absent", admitted |-> NoData]
NoEvaluation == [pc |-> "idle"]
NoHistory == [phase |-> "none"]

InitSide ==
  /\ limiter = NoLimiter
  /\ lock = "free"
  /\ threads = <<>>
  /\ evaluation = NoEvaluation
  /\ history = NoHistory

\* SLOMonitor.__init__
InitSLO == slo_buffer = <<>> /\ slo_recorded = 0 /\ slo_file = 0 /\ InitSide

\* what construction sets up besides the configuration and the window
InitHandlers ==
  /\ fn_call = NoFn
  /\ InitSLO
  /\ user_hash = UserDigest
  /\ now = 0
  /\ pc = "sleep"
  /\ last_iter = "none"
  /\ last_op = "init"
  /\ cache = {}
  /\ last_req = NoRequest
  /\ served = [requests |-> 0, errors |-> 0]

InitProcess == InitHandlers /\ rerank_call = NoCall /\ tfidf = "ok"

\* the first start: no file yet, the defaults are used and saved
InitGate ==
  /\ config = CanaryConfig
  /\ \E io \in IOOutcomes : config_file = save_config(CanaryConfig, AbsentFile, io)
  /\ InitProcess

Init ==
  /\ InitGate
  /\ metrics_buffer \in GateWindows

InitRollback ==
  /\ InitGate
  /\ config_file.kind = "json"
  /\ metrics_buffer \in RollbackWindows

\* ---------------------------------------------------------------- mutators
\* only the lower end is clamped
clamp_lower_only(p) == Max(0, p)

clamp(p) == Max(0, Min(RolloutScale, p))

\* the new values reach memory only when they reached the disk
update_rollout_percentage_persist_first(p, by, io) ==
  /\ config' = IF io = "ok"
                 THEN [config EXCEPT !.rollout_percentage = clamp(p),
                                     !.enabled = clamp(p) > 0,
                                     !.last_updated = now,
                                     !.updated_by = by]
                 ELSE config
  /\ config_file' = save_config(config', config_file, io)
  /\ last_op' = "update_rollout_percentage"

update_rollout_percentage(p, by, io) ==
  /\ config' = [config EXCEPT !.rollout_percentage = clamp(p),
                              !.enabled = clamp(p) > 0,
                              !.last_updated = now,
                              !.updated_by = by]
  /\ config_file' = save_config(config', config_file, io)
  /\ last_op' = "update_rollout_percentage"

enable_canary(p, by, io) == update_rollout_percentage(p, by, io)

disable_canary(by, io) == update_rollout_percentage(0, by, io)

\* (variant: the stop also switches the rollout off)
emergency_stop_disabling(by, io) ==
  /\ config' = [config EXCEPT !.emergency_stop = TRUE,
                              !.enabled = FALSE,
                              !.last_updated = now,
                              !.updated_by = by]
  /\ config_file' = save_config(config', config_file, io)
  /\ last_op' = "emergency_stop"

emergency_stop(by, io) ==
  /\ config' = [config EXCEPT !.emergency_stop = TRUE,
                              !.last_updated = now,
                              !.updated_by = by]
  /\ config_file' = save_config(config', config_file, io)
  /\ last_op' = "emergency_stop"

clear_emergency_stop(by, io) ==
  /\ config' = [config EXCEPT !.emergency_stop = FALSE,
                              !.last_updated = now,
                              !.updated_by = by]
  /\ config_file' = save_config(config', config_file, io)
  /\ last_op' = "clear_emergency_stop"

UpdateRollout ==
  \E p \in Percentages, by \in Actors, io \in IOOutcomes :
    /\ update_rollout_percentage(p, by, io)
    /\ UNCHANGED <<metrics_buffer, user_hash, now, pc, last_iter, serveVars>>

EnableCanary ==
  \E p \in Percentages, by \in Actors, io \in IOOutcomes :
    /\ enable_canary(p, by, io)
    /\ UNCHANGED <<metrics_buffer, user_hash, now, pc, last_iter, serveVars>>

DisableCanary ==
  \E by \in Actors, io \in IOOutcomes :
    /\ disable_canary(by, io)
    /\ UNCHANGED <<metrics_buffer, user_hash, now, pc, last_iter, serveVars>>

EmergencyStop ==
  \E by \in Actors, io \in IOOutcomes :
    /\ emergency_stop(by, io)
    /\ UNCHANGED <<metrics_buffer, user_hash, now, pc, last_iter, serveVars>>

ClearEmergencyStop ==
  \E by \in Actors, io \in IOOutcomes :
    /\ clear_emergency_stop(by, io)
    /\ UNCHANGED <<metrics_buffer, user_hash, now, pc, last_iter, serveVars>>

\* ------------------------------------------------------------- safety loop
RECURSIVE SumTotal(_)
\* sum(m.total_requests for m in recent_metrics)
SumTotal(s) ==
  IF s = <<>> THEN 0 ELSE Head(s).total_requests + SumTotal(Tail(s))

RECURSIVE SumErrors(_)
\* total_errors += metrics.error_rate_enabled * metrics.rerank_enabled_requests
SumErrors(s) ==
  IF s = <<>> THEN 0
  ELSE Head(s).error_rate_enabled * Head(s).rerank_enabled_requests + SumErrors(Tail(s))

\* [m for m in metrics_buffer if m.timestamp >= time.time() - minutes*60]
get_recent_metrics(minutes) ==
  SelectSeq(metrics_buffer, LAMBDA m : m.timestamp >= now - minutes)

RECURSIVE SumEnabled(_)
\* sum(m.rerank_enabled_requests for m in metrics), as _calculate_summary takes it
SumEnabled(s) ==
  IF s = <<>> THEN 0 ELSE Head(s).rerank_enabled_requests + SumEnabled(Tail(s))

\* "error_rate = total_errors / total_requests if total_requests > 0 else 0",
\* kept as a fraction (numerator in percent-requests, denominator in requests)
error_rate(recent_metrics) ==
  IF SumTotal(recent_metrics) > 0
    THEN [num |-> SumErrors(recent_metrics), den |-> SumTotal(recent_metrics)]
    ELSE [num |-> 0, den |-> 1]

\* a / b > t for a fraction with b > 0
RateAbove(rate, t) == rate.num > t * rate.den

should_auto_rollback ==
  LET recent_metrics == get_recent_metrics(RecentMinutes)
      total_requests == SumTotal(recent_metrics)
  IN IF recent_metrics = <<>> THEN FALSE
     ELSE IF total_requests < min_requests_for_rollback THEN FALSE
     ELSE RateAbove(error_rate(recent_metrics), auto_rollback_threshold)

\* time.sleep(60) returns
MonitorWake ==
  /\ pc = "sleep"
  /\ pc' = "check_enabled"
  /\ UNCHANGED <<config, config_file, metrics_buffer, user_hash, now, last_iter, last_op, serveVars>>

\* "if not self.config.enabled ...: continue" (read without the lock)
monitor_check_enabled == IF ~config.enabled THEN "sleep" ELSE "check_stop"

MonitorCheckEnabled ==
  /\ pc = "check_enabled"
  /\ pc' = monitor_check_enabled
  /\ last_iter' = IF pc' = "sleep" THEN "skipped" ELSE last_iter
  /\ UNCHANGED <<config, config_file, metrics_buffer, user_hash, now, last_op, serveVars>>

\* "... or self.config.emergency_stop: continue" (read without the lock)
\* the loop tests only config.enabled
monitor_check_stop_missing == "decide"

monitor_check_stop == IF config.emergency_stop THEN "sleep" ELSE "decide"

MonitorCheckStop ==
  /\ pc = "check_stop"
  /\ pc' = monitor_check_stop
  /\ last_iter' = IF pc' = "sleep" THEN "skipped" ELSE last_iter
  /\ UNCHANGED <<config, config_file, metrics_buffer, user_hash, now, last_op, serveVars>>

\* "if self._should_auto_rollback():"
MonitorDecide ==
  /\ pc = "decide"
  /\ pc' = IF should_auto_rollback THEN "rollback" ELSE "sleep"
  /\ last_iter' = IF pc' = "sleep" THEN "kept" ELSE last_iter
  /\ UNCHANGED <<config, config_file, metrics_buffer, user_hash, now, last_op, serveVars>>

\* self.disable_canary("auto_rollback")
MonitorRollback ==
  /\ pc = "rollback"
  /\ \E io \in IOOutcomes : disable_canary("auto_rollback", io)
  /\ pc' = "sleep"
  /\ last_iter' = "rolled_back"
  /\ UNCHANGED <<metrics_buffer, user_hash, now, serveVars>>

\* an exception inside the try block (reading the metrics, deciding, writing
\* the rollback): "except Exception as e: logger.error(...)", then the while
\* loop goes round
\* the try/except wraps the while loop: an exception ends the thread
monitor_except_outside_loop == "dead"

monitor_except == "sleep"

MonitorRaise ==
  /\ pc \in {"decide", "rollback"}
  /\ pc' = monitor_except
  /\ last_iter' = "error"
  /\ UNCHANGED <<config, config_file, metrics_buffer, user_hash, now, last_op, serveVars>>

\* ------------------------------------------------------- process restart
\* CanaryManager.__init__: defaults, _load_config, new monitoring thread
Restart ==
  /\ config' = load_config(config_file)
  /\ \E io \in IOOutcomes :
       config_file' = IF config_file.kind = "absent"
                        THEN save_config(CanaryConfig, config_file, io)
                        ELSE config_file
  /\ user_hash' = md5_in_new_process(user_hash)
  /\ metrics_buffer' \in GateWindows
  /\ pc' = "sleep"
  /\ last_iter' = "none"
  /\ last_op' = "load"
  /\ UNCHANGED <<now, serveVars>>

Tick ==
  /\ now < MaxTime
  /\ now' = now + 1
  /\ UNCHANGED <<config, config_file, metrics_buffer, user_hash, pc, last_iter, last_op, serveVars>>

\* ---------------------------------------------------------- serving path
gateVars == <<config, config_file, metrics_buffer, user_hash, now, pc, last_iter, last_op>>

\* what the request model of an application does with a request before the
\* handler runs: wp_chat declares min_length=1 on the text and a pattern on
\* the mode (HTTP 422); the legacy application declares plain str fields
rejected_by_model(app, q, mode) ==
  app = "wp_chat" /\ (q = "" \/ mode \notin Modes)

\* dense retrieval: the encoder or the ANN index may raise
search_dense(dense) == IF dense = "raise" THEN "exception" ELSE "none"

\* lexical retrieval: a missing index is an HTTP 400
search_bm25(bm25) == IF bm25 = "not_built" THEN "http400" ELSE "none"

\* the outcome of a retrieval that ended in error
Failed(error) ==
  [ error |-> error, invoked |-> FALSE, rerank_status |-> FALSE, began |-> TRUE,
    fell_back |-> FALSE, results |-> "none",
    detail |-> IF error = "http400" THEN "BM25 index not built" ELSE "exception" ]

\* the outcome of a retrieval that produced results from the given indexes
Retrieved(results, invoked, rerank_status, fell_back) ==
  [ error |-> "none", invoked |-> invoked, rerank_status |-> rerank_status,
    began |-> TRUE, fell_back |-> fell_back, results |-> results, detail |-> "" ]

\* rerank_with_ce absorbs a timeout or a scoring failure itself and returns
\* the hybrid order, so the stage still reports rerank_status True; only a
\* failure to construct the CrossEncoderReranker reaches the except clause,
\* before any pair is scored
search_hybrid_with_rerank(rerank, env) ==
  IF search_dense(env.dense) # "none" THEN Failed(search_dense(env.dense))
  ELSE IF search_bm25(env.bm25) # "none" THEN Failed(search_bm25(env.bm25))
  ELSE IF rerank /\ env.ce # "load_fail"
    THEN Retrieved("hybrid", TRUE, TRUE, env.ce # "ok")
  ELSE Retrieved("hybrid", FALSE, FALSE, rerank)

\* (variant: the text is checked as it was sent)
sanitize_query_keeps_whitespace(q) == q

\* the request models strip the text before the handler sees it, and the
\* handlers test q.strip()
sanitize_query(q) == IF q = " " THEN "" ELSE q

\* (variant: the reranking step follows every retrieval)
retrieve_rerank_any_mode(mode, rerank, env) ==
  IF mode = "dense" /\ search_dense(env.dense) # "none"
    THEN Failed(search_dense(env.dense))
  ELSE IF mode = "bm25" /\ search_bm25(env.bm25) # "none"
    THEN Failed(search_bm25(env.bm25))
  ELSE IF mode \in {"dense", "bm25"}
    THEN Retrieved(mode, rerank /\ env.ce # "load_fail", rerank /\ env.ce # "load_fail",
                   rerank /\ env.ce # "ok")
  ELSE search_hybrid_with_rerank(rerank, env)

\* the mode dispatch the handlers share: whatever is neither "dense" nor
\* "bm25" takes the hybrid branch; rerank is what the handler passes to the
\* hybrid pipeline
retrieve(mode, rerank, env) ==
  IF mode = "dense"
    THEN IF search_dense(env.dense) # "none"
           THEN Failed(search_dense(env.dense))
           ELSE Retrieved("dense", FALSE, FALSE, FALSE)
  ELSE IF mode = "bm25"
    THEN IF search_bm25(env.bm25) # "none"
           THEN Failed(search_bm25(env.bm25))
           ELSE Retrieved("bm25", FALSE, FALSE, FALSE)
  ELSE search_hybrid_with_rerank(rerank, env)

\* the record of a completed request.  query is the text the caller sent;
\* requested is the caller's rerank
\* flag; consulted says whether the handler asked the gate; permitted is the
\* gate's answer for the request's user at the moment retrieval started
\* (FALSE when the handler returned before that); invoked says whether the
\* cross-encoder scored the candidates; rerank is the reported rerank_status;
\* recorded says whether record_api_metric ran; collaborators says whether
\* a search collaborator was called; fell_back says whether the reranking
\* stage ran and left the hybrid order; results names the indexes the
\* returned contexts were computed from ("none": no contexts returned).
Request(endpoint, q, mode, requested, consulted, permitted, r, status, hit, fallback, recorded) ==
  [ endpoint |-> endpoint, query |-> q, mode |-> mode, requested |-> requested,
    consulted |-> consulted, permitted |-> permitted, invoked |-> r.invoked,
    rerank |-> r.rerank_status, status |-> status, cache_hit |-> hit,
    fallback_used |-> fallback, recorded |-> recorded,
    collaborators |-> r.began, fell_back |-> r.fell_back,
    results |-> IF status = 200 THEN r.results ELSE "none", detail |-> r.detail ]

NotRetrieved ==
  [ error |-> "none", invoked |-> FALSE, rerank_status |-> FALSE, began |-> FALSE,
    fell_back |-> FALSE, results |-> "none", detail |-> "" ]

\* the handler or the request model turned the request down
Refused(detail) == [NotRetrieved EXCEPT !.detail = detail]

\* the contexts come from the cache as an earlier request computed them
FromCache(origin) == [NotRetrieved EXCEPT !.results = origin]

search_key(q) == <<"search", sanitize_query(q), "any", FALSE>>
generate_key(q, mode, rerank) == <<"generate", sanitize_query(q), mode, rerank>>

\* cache_manager.get / cache_manager.set; origin names the indexes the
\* stored contexts were computed from
cached(key) == {e \in cache : e.key = key}
cache_origin(key) == (CHOOSE e \in cached(key) : TRUE).origin
cache_set(key, origin) ==
  {e \in cache : e.key # key} \cup {[key |-> key, origin |-> origin]}

\* /search
search(u, q, mode, rerank, limited, env) ==
  LET permitted == is_rerank_enabled_for_user(u)
      consulted == mode \notin {"dense", "bm25"}
      r == retrieve(mode, rerank /\ permitted, env)
  IN  IF sanitize_query(q) = ""
        THEN [req |-> Request("search", q, mode, rerank, FALSE, FALSE, Refused("query is empty"),
                              400, FALSE, FALSE, TRUE),
              cache |-> cache]
      ELSE IF limited
        THEN [req |-> Request("search", q, mode, rerank, FALSE, FALSE,
                              Refused("Rate limit exceeded"), 429, FALSE, FALSE, TRUE),
              cache |-> cache]
      ELSE IF cached(search_key(q)) # {}
        THEN [req |-> Request("search", q, mode, rerank, FALSE, FALSE,
                              FromCache(cache_origin(search_key(q))), 200, TRUE, FALSE, TRUE),
              cache |-> cache]
      ELSE IF r.error = "http400"
        THEN [req |-> Request("search", q, mode, rerank, consulted, permitted, r,
                              400, FALSE, FALSE, TRUE),
              cache |-> cache]
      ELSE IF r.error = "exception"
        THEN [req |-> Request("search", q, mode, rerank, consulted, permitted, r,
                              500, FALSE, TRUE, TRUE),
              cache |-> cache]
      ELSE IF ~consulted
        \* the results are cached, then the response reads canary_rerank_enabled,
        \* which only the hybrid branch assigns
        THEN [req |-> Request("search", q, mode, rerank, FALSE, permitted, r,
                              500, FALSE, TRUE, TRUE),
              cache |-> cache_set(search_key(q), r.results)]
      ELSE [req |-> Request("search", q, mode, rerank, TRUE, permitted, r,
                            200, FALSE, FALSE, TRUE),
            cache |-> cache_set(search_key(q), r.results)]

\* /ask: no rate limit, no cache, no gate, no metric; whatever the
\* collaborators raise leaves the handler
ask(u, q, mode, rerank, env) ==
  LET permitted == is_rerank_enabled_for_user(u)
      r == retrieve(mode, rerank, env)
  IN  IF sanitize_query(q) = ""
        THEN Request("ask", q, mode, rerank, FALSE, FALSE, Refused("question is empty"),
                     400, FALSE, FALSE, FALSE)
      ELSE IF r.error = "http400"
        THEN Request("ask", q, mode, rerank, FALSE, permitted, r, 400, FALSE, FALSE, FALSE)
      ELSE IF r.error = "exception"
        THEN Request("ask", q, mode, rerank, FALSE, permitted, r, 500, FALSE, FALSE, FALSE)
      ELSE Request("ask", q, mode, rerank, FALSE, permitted, r, 200, FALSE, FALSE, FALSE)

\* POST /generate without streaming
generate(u, q, mode, rerank, limited, env) ==
  LET permitted == is_rerank_enabled_for_user(u)
      consulted == mode \notin {"dense", "bm25"}
      r == retrieve(mode, rerank /\ permitted, env)
  IN  IF sanitize_query(q) = ""
        THEN [req |-> Request("generate", q, mode, rerank, FALSE, FALSE,
                              Refused("question is empty"), 400, FALSE, FALSE, TRUE),
              cache |-> cache]
      ELSE IF limited
        THEN [req |-> Request("generate", q, mode, rerank, FALSE, FALSE,
                              Refused("Rate limit exceeded"), 429, FALSE, FALSE, TRUE),
              cache |-> cache]
      ELSE IF cached(generate_key(q, mode, rerank)) # {}
        THEN [req |-> Request("generate", q, mode, rerank, FALSE, FALSE,
                              FromCache(cache_origin(generate_key(q, mode, rerank))),
                              200, TRUE, FALSE, TRUE),
              cache |-> cache]
      ELSE IF r.error = "http400"
        THEN [req |-> Request("generate", q, mode, rerank, consulted, permitted, r,
                              400, FALSE, FALSE, TRUE),
              cache |-> cache]
      ELSE IF r.error = "exception"
        THEN [req |-> Request("generate", q, mode, rerank, consulted, permitted, r,
                              500, FALSE, TRUE, TRUE),
              cache |-> cache]
      ELSE [req |-> Request("generate", q, mode, rerank, consulted, permitted, r,
                            200, FALSE, env.llm # "ok", TRUE),
            cache |-> IF env.llm = "raise"
                        THEN cache
                        ELSE cache_set(generate_key(q, mode, rerank), r.results)]

\* SearchService.execute_search: Query.from_string, the mode dispatch, no gate
execute_search(u, q, mode, rerank, env) ==
  LET permitted == is_rerank_enabled_for_user(u)
      r == retrieve(mode, rerank, env)
  IN  IF sanitize_query(q) = ""
        THEN Request("execute_search", q, mode, rerank, FALSE, FALSE,
                     Refused("Query text cannot be empty"), 400, FALSE, FALSE, FALSE)
      ELSE IF mode \notin Modes
        THEN Request("execute_search", q, mode, rerank, FALSE, FALSE,
                     Refused("Invalid search mode"), 500, FALSE, FALSE, FALSE)
      ELSE IF r.error = "http400"
        THEN Request("execute_search", q, mode, rerank, FALSE, permitted, r,
                     400, FALSE, FALSE, FALSE)
      ELSE IF r.error = "exception"
        THEN Request("execute_search", q, mode, rerank, FALSE, permitted, r,
                     500, FALSE, FALSE, FALSE)
      ELSE Request("execute_search", q, mode, rerank, FALSE, permitted, r,
                   200, FALSE, FALSE, FALSE)

\* the request model turned the request down before the handler ran
unprocessable(endpoint, q, mode, rerank) ==
  Request(endpoint, q, mode, rerank, FALSE, FALSE, Refused("validation error"),
          422, FALSE, FALSE, FALSE)

\* whether the request ends before the user or a collaborator is looked at
returns_early(app, q, mode, limited, key) ==
  \/ rejected_by_model(app, q, mode)
  \/ sanitize_query(q) = ""
  \/ limited
  \/ cached(key) # {}

\* what the collaborators can do in this process: the lexical index is
\* loaded, or found missing, once, when the module is imported
Possible(envs) == {e \in envs : e.bm25 = tfidf}

\* of those, the ones a request of this mode can tell apart: a fault of the
\* scorer shows only when the hybrid branch is asked to rerank, a fault of
\* the dense index does not show in bm25 mode
Observable(mode, rerank, envs) ==
  { e \in Possible(envs) :
      /\ e.ce # "ok" => (rerank /\ mode \notin {"dense", "bm25"})
      /\ e.dense # "ok" => mode # "bm25" }

\* one user for each answer the gate gives: the handlers use the user only
\* to ask the gate
Callers ==
  { (CHOOSE u \in Users : is_rerank_enabled_for_user(u) = b) :
      b \in {is_rerank_enabled_for_user(v) : v \in Users} }

\* the applications that treat the request differently: they differ in the
\* request model only
Served(q, mode) == IF q = "" \/ mode \notin Modes THEN Apps ELSE {"wp_chat"}

Search ==
  \E q \in Queries, limited \in BOOLEAN, mode \in RequestModes, rerank \in BOOLEAN :
   \E app \in Served(q, mode) :
    \E u \in IF returns_early(app, q, mode, limited, search_key(q)) THEN {"u1"} ELSE Callers,
       env \in IF returns_early(app, q, mode, limited, search_key(q))
                 THEN {AllOk} ELSE Observable(mode, rerank, SearchEnvironments) :
      /\ last_req' = IF rejected_by_model(app, q, mode)
                       THEN unprocessable("search", q, mode, rerank)
                       ELSE search(u, q, mode, rerank, limited, env).req
      /\ cache' = IF rejected_by_model(app, q, mode)
                    THEN cache
                    ELSE search(u, q, mode, rerank, limited, env).cache
      /\ UNCHANGED <<gateVars, served, rerank_call, tfidf, sloVars>>

Ask ==
  \E q \in Queries, mode \in RequestModes, rerank \in BOOLEAN :
   \E app \in Served(q, mode) :
    \E u \in IF returns_early(app, q, mode, FALSE, <<>>) THEN {"u1"} ELSE Callers,
       env \in IF returns_early(app, q, mode, FALSE, <<>>)
                 THEN {AllOk} ELSE Observable(mode, rerank, SearchEnvironments) :
      /\ last_req' = IF rejected_by_model(app, q, mode)
                       THEN unprocessable("ask", q, mode, rerank)
                       ELSE ask(u, q, mode, rerank, env)
      /\ UNCHANGED <<gateVars, cache, served, rerank_call, tfidf, sloVars>>

GenerateIn(modes) ==
  \E q \in Queries, limited \in BOOLEAN, mode \in modes, rerank \in BOOLEAN :
    \E u \in IF returns_early("wp_chat", q, mode, limited, generate_key(q, mode, rerank))
               THEN {"u1"} ELSE Callers,
       env \in IF returns_early("wp_chat", q, mode, limited, generate_key(q, mode, rerank))
                 THEN {AllOk} ELSE Observable(mode, rerank, Environments) :
      /\ last_req' = IF rejected_by_model("wp_chat", q, mode)
                       THEN unprocessable("generate", q, mode, rerank)
                       ELSE generate(u, q, mode, rerank, limited, env).req
      /\ cache' = IF rejected_by_model("wp_chat", q, mode)
                    THEN cache
                    ELSE generate(u, q, mode, rerank, limited, env).cache
      /\ UNCHANGED <<gateVars, served, rerank_call, tfidf, sloVars>>

Generate == GenerateIn(GenerateModes)

GenerateAnyMode == GenerateIn(AnyGenerateModes)

ExecuteSearch ==
  \E q \in Queries, mode \in RequestModes, rerank \in BOOLEAN :
    \E u \in IF sanitize_query(q) = "" \/ mode \notin Modes THEN {"u1"} ELSE Callers,
       env \in IF sanitize_query(q) = "" \/ mode \notin Modes
                 THEN {AllOk} ELSE Observable(mode, rerank, SearchEnvironments) :
      /\ last_req' = execute_search(u, q, mode, rerank, env)
      /\ UNCHANGED <<gateVars, cache, served, rerank_call, tfidf, sloVars>>

\* ================================================================ claims
AllActors == Actors \cup {"auto_rollback"}
LoopPositions == {"sleep", "check_enabled", "check_stop", "decide", "rollback"}

\* C1: in every reachable state in which emergency_stop is true,
\* is_rerank_enabled_for_user returns false for every user, whatever
\* rollout_percentage and enabled are and whatever mutators ran meanwhile.
C1_EmergencyStopOverrides ==
  config.emergency_stop => \A u \in Users : ~is_rerank_enabled_for_user(u)

\* the stop is in force over a gate that is enabled at 100%, set while stopped
C1_Witness ==
  /\ config.emergency_stop
  /\ config.enabled
  /\ config.rollout_percentage = RolloutScale
  /\ last_op = "update_rollout_percentage"

C4_RolloutBoundaries ==
  [][ LET none == \A u \in Users : ~is_rerank_enabled_for_user(u)'
          all == \A u \in Users : is_rerank_enabled_for_user(u)'
          broken(p) == \/ p <= 0 /\ ~none
                       \/ p >= RolloutScale /\ ~config'.emergency_stop /\ ~all
      IN last_op' = "update_rollout_percentage" =>
           \A p \in Percentages :
             broken(p) => ~(\E by \in AllActors, io \in IOOutcomes :
                             update_rollout_percentage(p, by, io)) ]_vars

\* update_rollout_percentage has just set 100% and users with different hashes
\* (among them the largest hash value) are all let through
C4_Witness ==
  /\ last_op = "update_rollout_percentage"
  /\ config.rollout_percentage = RolloutScale
  /\ ~config.emergency_stop
  /\ \E u, v \in Users : hash_user_id(u) # hash_user_id(v)
  /\ \E u \in Users : hash_user_id(u) >= RolloutScale
  /\ \A u \in Users : is_rerank_enabled_for_user(u)

C9_SkippedIterationIsNoOp ==
  [][ ( /\ \/ pc = "check_enabled" /\ ~config.enabled
           \/ pc = "check_stop" /\ config.emergency_stop
        /\ pc' # pc
        /\ last_iter' # "none" )
      => /\ pc' = "sleep"
         /\ last_iter' = "skipped"
         /\ config' = config
         /\ config_file' = config_file ]_vars

\* an iteration was skipped because of the emergency stop of an enabled gate
C9_Witness ==
  /\ pc = "sleep"
  /\ last_iter = "skipped"
  /\ config.enabled
  /\ config.emergency_stop
  /\ config.last_updated < now

\* C10: an exception inside one iteration is caught inside that iteration;
\* the loop never terminates and goes on to its next sleep.
C10_LoopSurvivesExceptions ==
  /\ pc \in LoopPositions
  /\ (last_iter = "error" /\ pc = "sleep") => ENABLED MonitorWake

\* after an iteration that raised, the next iteration has started
C10_Witness ==
  /\ last_iter = "error"
  /\ pc = "check_enabled"

\* the request-weighted error rate among the rerank-enabled requests of a
\* window: sum(error_rate_enabled_i * rerank_enabled_requests_i) over
\* sum(rerank_enabled_requests_i)
RerankErrorRate(w) ==
  IF SumEnabled(w) > 0
    THEN [num |-> SumErrors(w), den |-> SumEnabled(w)]
    ELSE [num |-> 0, den |-> 1]

\* C6: an iteration that runs with the gate enabled and not stopped, over a
\* window with total requests >= min_requests_for_rollback and a weighted
\* rerank error rate above the threshold, sets rollout_percentage to 0
\* (enabled false, updated_by "auto_rollback"); with total requests below the
\* minimum it leaves the configuration unchanged.
C6_AutoRollbackRule ==
  [][ LET w == get_recent_metrics(RecentMinutes) IN
      /\ ( /\ pc = "decide"
           /\ pc' # pc
           /\ last_iter' \notin {"none", "error"}
           /\ config.enabled /\ ~config.emergency_stop )
         => /\ ( /\ SumTotal(w) >= min_requests_for_rollback
                 /\ RateAbove(RerankErrorRate(w), auto_rollback_threshold) )
               => pc' = "rollback"
            /\ SumTotal(w) < min_requests_for_rollback
               => (pc' = "sleep" /\ config' = config)
      /\ (pc = "rollback" /\ pc' # pc /\ last_iter' \notin {"none", "error"})
         => /\ config'.rollout_percentage = 0
            /\ ~config'.enabled
            /\ config'.updated_by = "auto_rollback" ]_vars

\* C8: the error rate that _should_auto_rollback compares with the threshold
\* is the request-weighted error rate among the rerank-enabled requests of
\* the window, for every window that reaches the comparison.
C8_ComparedRateIsRerankRate ==
  LET w == get_recent_metrics(RecentMinutes) IN
  ( /\ pc = "decide"
    /\ w # <<>>
    /\ SumTotal(w) >= min_requests_for_rollback )
  => error_rate(w).num * RerankErrorRate(w).den
       = RerankErrorRate(w).num * error_rate(w).den

Next ==
  \/ UpdateRollout
  \/ EnableCanary
  \/ DisableCanary
  \/ EmergencyStop
  \/ ClearEmergencyStop
  \/ MonitorWake
  \/ MonitorCheckEnabled
  \/ MonitorCheckStop
  \/ MonitorDecide
  \/ MonitorRollback
  \/ MonitorRaise
  \/ Restart
  \/ Tick

Spec == Init /\ [][Next]_vars

\* the rollback rule over the sample windows: the gate is opened, stopped and
\* cleared by the admin while the loop runs
NextRollback ==
  \/ UpdateRollout
  \/ EmergencyStop
  \/ ClearEmergencyStop
  \/ MonitorWake
  \/ MonitorCheckEnabled
  \/ MonitorCheckStop
  \/ MonitorDecide
  \/ MonitorRollback
  \/ MonitorRaise

SpecRollback == InitRollback /\ [][NextRollback]_vars
\* ------------------------------------------------ serving specification
\* The API process starts over the file an earlier process left after an
\* operator set the rollout; the handlers then run while operators throw and
\* clear the kill switch.
InitDeployed ==
  /\ \E p \in Percentages, by \in Actors :
       config_file = save_config([CanaryConfig EXCEPT !.rollout_percentage = clamp(p),
                                                      !.enabled = clamp(p) > 0,
                                                      !.updated_by = by],
                                 AbsentFile, "ok")
  /\ config = load_config(config_file)
  /\ InitHandlers
  /\ rerank_call = NoCall

InitServe == InitDeployed /\ metrics_buffer = <<>> /\ tfidf = "ok"

NextServe ==
  \/ EmergencyStop
  \/ ClearEmergencyStop
  \/ Search
  \/ Ask
  \/ Generate

SpecServe == InitServe /\ [][NextServe]_vars

\* C2: a request invokes the reranker only if the caller requested reranking
\* and the gate permitted reranking for the request's user when the handler
\* ran; in particular no request invokes it while the gate is disabled or
\* emergency-stopped.
C2_RerankOnlyWhenPermitted ==
  last_req.invoked => (last_req.requested /\ last_req.permitted)

\* C15: whenever a hybrid request ran the reranking stage and the stage
\* failed or ran over its time budget, so that the request was served in
\* hybrid-score order, the metric point recorded for the request has
\* fallback_used = true.
C15_FallbackRecorded ==
  (last_req.recorded /\ last_req.status = 200 /\ last_req.fell_back)
    => last_req.fallback_used

\* --------------------------------------- safety loop beside the handlers
\* served is a history variable: it counts, among the requests /search
\* completed, those whose reranking stage was enabled (requested, and
\* permitted by the gate) and those of them that ended in a server error.
tally(t, req) ==
  IF req.requested /\ req.consulted /\ req.permitted
    THEN [requests |-> t.requests + 1,
          errors |-> t.errors + (IF req.status >= 500 THEN 1 ELSE 0)]
    ELSE t

MaxServed == min_requests_for_rollback

\* record_api_metric appends the outcome to the SLOMonitor's buffer
\* (recorded); record_canary_metric, the only writer CanaryManager offers
\* for metrics_buffer, has an empty body and no caller, so the window the
\* loop evaluates is left as it is.
\* the collaborator that fails while the loop is watched is the dense index
DenseEnvironments == {e \in SearchEnvironments : e.bm25 = "ok" /\ e.ce = "ok"}

ServeSearch ==
  /\ served.requests < MaxServed
  /\ \E u \in Users, env \in DenseEnvironments :
       /\ last_req' = search(u, "q", "hybrid", TRUE, FALSE, env).req
       /\ cache' = search(u, "q", "hybrid", TRUE, FALSE, env).cache
       /\ served' = tally(served, search(u, "q", "hybrid", TRUE, FALSE, env).req)
  /\ UNCHANGED <<gateVars, rerank_call, tfidf, sloVars>>

MonitorLoop ==
  \/ MonitorWake
  \/ MonitorCheckEnabled
  \/ MonitorCheckStop
  \/ MonitorDecide
  \/ MonitorRollback

NextLoop ==
  \/ ServeSearch
  \/ MonitorWake
  \/ MonitorCheckEnabled
  \/ MonitorCheckStop
  \/ MonitorDecide
  \/ MonitorRollback

InitLoop == InitDeployed /\ metrics_buffer \in GateWindows /\ tfidf = "ok"

\* the daemon thread is scheduled again and again
SpecLoop == InitLoop /\ [][NextLoop]_vars /\ WF_vars(MonitorLoop)

ServedAboveThreshold ==
  /\ served.requests >= min_requests_for_rollback
  /\ served.errors * 100 > auto_rollback_threshold * served.requests

\* C7: the loop evaluates what the handlers record: once the serving path
\* has completed at least min_requests_for_rollback rerank-enabled requests
\* inside the window with an error rate above auto_rollback_threshold, over
\* a gate that is enabled and not emergency-stopped, the fairly scheduled
\* loop eventually sets the gate to rollout 0 by "auto_rollback".
C7_LoopEvaluatesServedOutcomes ==
  (ServedAboveThreshold /\ config.enabled /\ ~config.emergency_stop)
    ~> (config.rollout_percentage = 0 /\ config.updated_by = "auto_rollback")

\* ----------------------------------------------------- persistence failures
FailedWrites == {"open_fail", "write_fail"}

\* the gate's answer for user u over the configuration c
Permits(c, u) ==
  /\ ~c.emergency_stop
  /\ c.enabled
  /\ c.rollout_percentage > 0
  /\ (c.rollout_percentage >= RolloutScale \/ user_hash[u] < c.rollout_percentage)

\* the mutator step returns, memory holds c, and the gate answers from c
ReturnsHolding(c) ==
  /\ UNCHANGED <<metrics_buffer, user_hash, now, pc, last_iter, serveVars>>
  /\ config' = c
  /\ \A u \in Users : is_rerank_enabled_for_user(u)' = Permits(c, u)

\* C11: when writing the configuration fails during any mutator, the mutator
\* still returns normally, the in-memory config holds the new values, and
\* the gate's later answers in that process reflect the new values.
C11_InMemoryAuthoritative ==
  \A by \in Actors, io \in FailedWrites :
    /\ \A p \in Percentages :
         /\ ENABLED ( /\ update_rollout_percentage(p, by, io)
                      /\ ReturnsHolding([config EXCEPT !.rollout_percentage = clamp(p),
                                                        !.enabled = clamp(p) > 0,
                                                        !.last_updated = now,
                                                        !.updated_by = by]) )
         /\ ENABLED ( /\ enable_canary(p, by, io)
                      /\ ReturnsHolding([config EXCEPT !.rollout_percentage = clamp(p),
                                                        !.enabled = clamp(p) > 0,
                                                        !.last_updated = now,
                                                        !.updated_by = by]) )
    /\ ENABLED ( /\ disable_canary(by, io)
                 /\ ReturnsHolding([config EXCEPT !.rollout_percentage = 0,
                                                   !.enabled = FALSE,
                                                   !.last_updated = now,
                                                   !.updated_by = by]) )
    /\ ENABLED ( /\ emergency_stop(by, io)
                 /\ ReturnsHolding([config EXCEPT !.emergency_stop = TRUE,
                                                   !.last_updated = now,
                                                   !.updated_by = by]) )
    /\ ENABLED ( /\ clear_emergency_stop(by, io)
                 /\ ReturnsHolding([config EXCEPT !.emergency_stop = FALSE,
                                                   !.last_updated = now,
                                                   !.updated_by = by]) )

\* a rollout was set whose write failed: the file is stale or truncated,
\* and the gate admits a user on the strength of memory alone
C11_Witness ==
  /\ last_op = "update_rollout_percentage"
  /\ load_config(config_file) # config
  /\ ~(\E u \in Users : Permits(load_config(config_file), u))
  /\ \E u \in Users : is_rerank_enabled_for_user(u)

\* ------------------------------------------- startup over an unreadable file
\* configurations some earlier writer put into the file
StoredConfigs ==
  { [CanaryConfig EXCEPT !.rollout_percentage = clamp(p),
                         !.enabled = clamp(p) > 0,
                         !.emergency_stop = stop,
                         !.updated_by = by] :
      p \in Percentages, stop \in BOOLEAN, by \in Actors }

\* a JSON object with a member CanaryConfig does not declare
UnknownMemberFiles ==
  { [kind |-> "json",
     data |-> [f \in ConfigFields \cup {"canary_group"} |->
                 IF f \in ConfigFields THEN c[f] ELSE "beta"]] : c \in StoredConfigs }

\* a JSON object that lacks one of the members CanaryConfig declares
MissingMemberFiles ==
  { [kind |-> "json", data |-> [f \in ConfigFields \ {gone} |-> c[f]]] :
      c \in StoredConfigs, gone \in ConfigFields }

UnreadableFiles == {CorruptFile} \cup UnknownMemberFiles \cup MissingMemberFiles

InitStartup ==
  /\ config_file \in UnreadableFiles
  /\ config = load_config(config_file)
  /\ metrics_buffer = <<>>
  /\ InitProcess

NextStartup ==
  \/ UpdateRollout
  \/ EmergencyStop
  \/ ClearEmergencyStop
  \/ Restart

SpecStartup == InitStartup /\ [][NextStartup]_vars

Unreadable(file) ==
  \/ file.kind = "corrupt"
  \/ file.kind = "json" /\ DOMAIN file.data # ConfigFields

\* C12: when the persisted configuration cannot be read or parsed at startup
\* (corrupt JSON, unknown or missing members), the gate starts from the
\* default configuration and admits no user until a mutator is called.
C12_UnreadableConfigStartsFromDefaults ==
  (last_op \in {"init", "load"} /\ Unreadable(config_file))
    => /\ ~config.enabled
       /\ config.rollout_percentage = 0
       /\ ~config.emergency_stop
       /\ \A u \in Users : ~is_rerank_enabled_for_user(u)

\* ---------------------------------------------------------- reranking stage
\* Scores are counted in units of 1/2: hybrid_score and the sigmoid of the
\* cross-encoder both lie in [0,1].
MaxCandidates == 3
Scores == 0 .. 2
TopKs == 1 .. 2

NoMeta == [k \in {} |-> 0]

\* a Candidate as _search_hybrid_with_rerank builds it: no score in meta yet
Candidate(i, h) == [chunk_id |-> i, hybrid_score |-> h, meta |-> NoMeta]

\* the diversified lists mmr_diversify may hand over, ties included
CandidateLists ==
  UNION { { [i \in 1 .. n |-> Candidate(i, h[i])] : h \in [1 .. n -> Scores] } :
          n \in 0 .. MaxCandidates }

Calls ==
  { [NoCall EXCEPT !.phase = "called", !.rerank = r, !.diversified = d, !.topk = k] :
      r \in BOOLEAN, d \in CandidateLists, k \in TopKs }

SortKey(c, by) == IF by = "hybrid_score" THEN c.hybrid_score ELSE c.meta.composite_score

RECURSIVE InsertDesc(_, _, _)
\* c goes behind every element whose key is not smaller: the sort is stable
InsertDesc(c, s, by) ==
  IF s = <<>> THEN <<c>>
  ELSE IF SortKey(Head(s), by) >= SortKey(c, by)
    THEN <<Head(s)>> \o InsertDesc(c, Tail(s), by)
  ELSE <<c>> \o s

RECURSIVE sorted(_, _)
\* sorted(s, key=..., reverse=True)
sorted(s, by) ==
  IF s = <<>> THEN <<>>
  ELSE InsertDesc(s[Len(s)], sorted(SubSeq(s, 1, Len(s) - 1), by), by)

\* s[:topk]
Take(s, topk) == SubSeq(s, 1, Min(topk, Len(s)))

\* calculate_final_score, times 5: alpha * ce + (1 - alpha) * hybrid with
\* alpha = 0.8 when composite scoring is configured, the hybrid score otherwise
calculate_final_score(h, ce_score, composite) ==
  IF composite THEN 4 * ce_score + h ELSE 5 * h

\* the input order is returned as it came
scoring_failure_unsorted(diversified, topk) ==
  [ranked |-> Take(diversified, topk), raised |-> FALSE]

\* except Exception: every candidate is marked, the hybrid order is returned
scoring_failure(diversified, topk) ==
  [ ranked |-> Take(sorted([i \in 1 .. Len(diversified) |->
                              [diversified[i] EXCEPT !.meta = @ @@ ("ce_error" :> "e")]],
                           "hybrid_score"),
                    topk),
    raised |-> FALSE ]

\* the elapsed time is never looked at
over_budget_ignored(ce) == FALSE

\* elapsed > timeout_sec, evaluated once score_pairs has returned
over_budget(ce) == ce = "timeout"

\* the candidates as the scoring loop left them when it raised: c.meta is
\* written in place, so the candidates before failed_at carry both scores and
\* the one calculate_final_score raised on carries its ce_score; failed_at = 0
\* is score_pairs itself raising, before any candidate was touched
annotated(diversified, ce_scores, failed_at, composite) ==
  [i \in 1 .. Len(diversified) |->
     IF i < failed_at
       THEN [diversified[i] EXCEPT !.meta =
               @ @@ ("ce_score" :> ce_scores[i])
                 @@ ("composite_score" :>
                       calculate_final_score(diversified[i].hybrid_score,
                                             ce_scores[i], composite))]
     ELSE IF i = failed_at
       THEN [diversified[i] EXCEPT !.meta = @ @@ ("ce_score" :> ce_scores[i])]
     ELSE diversified[i]]

rerank_with_ce(diversified, ce, ce_scores, failed_at, topk, composite) ==
  IF diversified = <<>> THEN [ranked |-> <<>>, raised |-> FALSE]
  ELSE IF ce = "exception"
    THEN scoring_failure(annotated(diversified, ce_scores, failed_at, composite), topk)
  ELSE IF over_budget(ce)
    THEN [ranked |-> Take(sorted(diversified, "hybrid_score"), topk), raised |-> FALSE]
  ELSE [ ranked |->
           Take(sorted([i \in 1 .. Len(diversified) |->
                          [diversified[i] EXCEPT !.meta =
                             @ @@ ("ce_score" :> ce_scores[i])
                               @@ ("composite_score" :>
                                     calculate_final_score(diversified[i].hybrid_score,
                                                           ce_scores[i], composite))]],
                       "composite_score"),
                topk),
         raised |-> FALSE ]

\* the "Reranking" step of _search_hybrid_with_rerank
rerank_stage(rerank, diversified, ce, ce_scores, failed_at, topk, composite) ==
  LET fallback == Take(sorted(diversified, "hybrid_score"), topk)
      r == rerank_with_ce(diversified, ce, ce_scores, failed_at, topk, composite)
  IN  IF ~rerank THEN [ranked |-> fallback, rerank_status |-> FALSE, raised |-> FALSE]
      ELSE IF ce = "load_fail"
        THEN [ranked |-> fallback, rerank_status |-> FALSE, raised |-> FALSE]
      ELSE IF r.raised
        THEN [ranked |-> fallback, rerank_status |-> FALSE, raised |-> TRUE]
      ELSE [ranked |-> r.ranked, rerank_status |-> TRUE, raised |-> FALSE]

\* what became of the cross-encoder in this call: it is constructed only when
\* reranking is asked for, and scores only a list that is not empty
scorer_outcome(rerank, diversified, ce) ==
  IF rerank /\ (ce = "load_fail" \/ diversified # <<>>) THEN ce ELSE "none"

RerankStage ==
  /\ rerank_call.phase = "called"
  /\ \E ce \in RerankerOutcomes, composite \in BOOLEAN,
        ce_scores \in [1 .. Len(rerank_call.diversified) -> Scores],
        failed_at \in 0 .. Len(rerank_call.diversified) :
       LET r == rerank_stage(rerank_call.rerank, rerank_call.diversified, ce, ce_scores,
                             failed_at, rerank_call.topk, composite)
       IN  rerank_call' = [rerank_call EXCEPT !.phase = "returned",
                                              !.ce = scorer_outcome(rerank_call.rerank,
                                                                    rerank_call.diversified, ce),
                                              !.ranked = r.ranked,
                                              !.rerank_status = r.rerank_status,
                                              !.raised = r.raised]
  /\ UNCHANGED <<gateVars, cache, last_req, served, tfidf, sloVars>>

InitRerank ==
  /\ config = CanaryConfig
  /\ config_file = save_config(CanaryConfig, AbsentFile, "ok")
  /\ metrics_buffer = <<>>
  /\ InitHandlers
  /\ tfidf = "ok"
  /\ rerank_call \in Calls

SpecRerank == InitRerank /\ [][RerankStage]_vars

\* r is the first k of d in descending hybrid_score order
TopByHybrid(r, d, k) ==
  /\ Len(r) = Min(k, Len(d))
  /\ \A i \in 1 .. (Len(r) - 1) : r[i].hybrid_score >= r[i + 1].hybrid_score
  /\ \A i, j \in 1 .. Len(r) : r[i].chunk_id = r[j].chunk_id => i = j
  /\ \A i \in 1 .. Len(r) :
       \E j \in 1 .. Len(d) : /\ d[j].chunk_id = r[i].chunk_id
                              /\ d[j].hybrid_score = r[i].hybrid_score
  /\ \A j \in 1 .. Len(d) :
       (\A i \in 1 .. Len(r) : r[i].chunk_id # d[j].chunk_id)
         => \A i \in 1 .. Len(r) : r[i].hybrid_score >= d[j].hybrid_score

\* rerank_with_ce was entered and has returned
Returned(ce) ==
  /\ rerank_call.phase = "returned"
  /\ rerank_call.rerank
  /\ rerank_call.ce = ce

\* C13: rerank_with_ce never raises to its caller; when the scoring call
\* raises, it returns the first topk of its input in descending hybrid_score
\* order.
C13_RerankNeverRaises ==
  /\ rerank_call.phase = "returned" => ~rerank_call.raised
  /\ Returned("exception")
       => TopByHybrid(rerank_call.ranked, rerank_call.diversified, rerank_call.topk)

\* scoring raised over three candidates that arrived out of order
C13_Witness ==
  /\ Returned("exception")
  /\ Len(rerank_call.diversified) = MaxCandidates
  /\ rerank_call.diversified[1].hybrid_score < rerank_call.diversified[2].hybrid_score
  /\ Len(rerank_call.ranked) < Len(rerank_call.diversified)

\* C14: when the batch scoring call returns after more than timeout_sec, the
\* scores are discarded: the result is the first topk of the input in
\* descending hybrid_score order and no returned candidate carries a ce_score
\* or a composite score.
C14_TimeoutDiscardsScores ==
  Returned("timeout")
    => /\ TopByHybrid(rerank_call.ranked, rerank_call.diversified, rerank_call.topk)
       /\ \A i \in 1 .. Len(rerank_call.ranked) :
            DOMAIN rerank_call.ranked[i].meta \cap {"ce_score", "composite_score"} = {}

\* the batch came back late over candidates that arrived out of order
C14_Witness ==
  /\ Returned("timeout")
  /\ Len(rerank_call.diversified) = MaxCandidates
  /\ rerank_call.diversified[1].hybrid_score < rerank_call.diversified[2].hybrid_score
  /\ Len(rerank_call.ranked) > 1

\* C16: the rerank-applied flag of the hybrid search is true only if rerank
\* scores were applied to produce the returned ranking; it is false whenever
\* the stage fell back to the hybrid order after a timeout or an exception.
C16_RerankStatusMeansApplied ==
  (rerank_call.phase = "returned" /\ rerank_call.rerank_status)
    => /\ rerank_call.ce \notin {"timeout", "exception"}
       /\ \A i \in 1 .. Len(rerank_call.ranked) :
            "ce_score" \in DOMAIN rerank_call.ranked[i].meta

\* ------------------------------------------------------ request handling
\* The handlers and the search service under every request a caller can
\* send, in a process that found the lexical index and in one that did not.
InitRequests == InitDeployed /\ metrics_buffer = <<>> /\ tfidf \in LexicalOutcomes

NextRequests ==
  \/ Search
  \/ Ask
  \/ GenerateAnyMode
  \/ ExecuteSearch

SpecRequests == InitRequests /\ [][NextRequests]_vars

\* C17: a request in dense or bm25 mode never invokes the reranker and its
\* result's rerank flag is false, whatever rerank parameter the caller sent
\* and whatever the state of the gate.
C17_NoRerankOutsideHybrid ==
  last_req.mode \in {"dense", "bm25"} => (~last_req.invoked /\ ~last_req.rerank)

\* a dense request that asked for reranking was answered while the gate
\* admitted every user
C17_Witness ==
  /\ last_req.mode = "dense"
  /\ last_req.requested
  /\ last_req.status = 200
  /\ last_req.results = "dense"
  /\ \A u \in Users : is_rerank_enabled_for_user(u)

\* the text is empty or nothing but whitespace
Blank(q) == q \in {"", " "}

C19_InvalidModeRejected ==
  (last_req.endpoint # "none" /\ last_req.mode \notin Modes /\ ~Blank(last_req.query))
    => /\ ~last_req.collaborators
       /\ last_req.results = "none"
       /\ \/ last_req.status \in {400, 422}
          \/ last_req.detail = "Invalid search mode"

\* C20: a hybrid-mode request issued while the lexical index is not built
\* ends with the named "BM25 index not built" error reported to the caller;
\* it never returns results computed from the dense index alone.  (A request
\* turned down for its text or by the rate limit never reaches retrieval.)
C20_HybridNeedsLexicalIndex ==
  ( /\ last_req.endpoint # "none"
    /\ last_req.mode = "hybrid"
    /\ tfidf = "not_built"
    /\ ~Blank(last_req.query)
    /\ last_req.status # 429 )
    => /\ last_req.status = 400
       /\ last_req.detail = "BM25 index not built"
       /\ last_req.results = "none"

\* C21: a /search request with a non-empty query and a valid mode, that is
\* not rate-limited and whose collaborators are available, completes with a
\* success outcome, in dense and bm25 mode with rerank false in the
\* response; only caller errors and collaborator errors end otherwise.
\* (detail names the caller error or the collaborator error, if any.)
C21_SearchSucceeds ==
  ( /\ last_req.endpoint = "search"
    /\ ~Blank(last_req.query)
    /\ last_req.mode \in Modes
    /\ last_req.detail = "" )
    => /\ last_req.status = 200
       /\ last_req.mode \in {"dense", "bm25"} => ~last_req.rerank

\* C22: every request to a serving endpoint (/search, /ask, /generate) that
\* its handler completed, whether it succeeded, was rejected as a caller
\* error or failed internally, appended one MetricPoint to the SLOMonitor.
\* (A request the request model turned down never reached a handler.)
C22_EveryRequestRecorded ==
  (last_req.endpoint \in {"search", "ask", "generate"} /\ last_req.status # 422)
    => last_req.recorded

\* ------------------------------------------------- functions of the pipeline
\* Each function is applied once to arguments drawn from small sets: fn_call
\* holds the arguments while phase is "called" and the result once it is
\* "returned".
MaxHits == 4
MaxLimit == 2
Docs == {"a", "b"}

\* a Candidate of the hybrid pipeline; emb names the embedding
Hit(i, doc, h) == [chunk_id |-> i, doc_id |-> doc, hybrid_score |-> h, emb |-> i]

\* what the calls leave alone
callFrame ==
  <<gateVars, cache, last_req, served, rerank_call, tfidf, slo_buffer, slo_recorded, slo_file,
    sideVars>>

Returned_(result) == [fn_call EXCEPT !.phase = "returned", !.result = result]

\* (variant: one hit more than the limit is kept)
under_limit_inclusive(count, limit_per_article) == count <= limit_per_article

\* article_counts.get(article_id, 0) < limit_per_article
under_limit(count, limit_per_article) == count < limit_per_article

RECURSIVE dedup_loop(_, _, _, _)
\* the for loop of dedup_by_article over the candidates still to visit
dedup_loop(candidates, limit_per_article, article_counts, deduped) ==
  IF candidates = <<>> THEN deduped
  ELSE LET cand == Head(candidates)
           count == IF cand.doc_id \in DOMAIN article_counts
                      THEN article_counts[cand.doc_id] ELSE 0
       IN  IF under_limit(count, limit_per_article)
             THEN dedup_loop(Tail(candidates), limit_per_article,
                             (cand.doc_id :> count + 1) @@ article_counts,
                             Append(deduped, cand))
             ELSE dedup_loop(Tail(candidates), limit_per_article, article_counts, deduped)

dedup_by_article(candidates, limit_per_article) ==
  IF candidates = <<>> THEN <<>>
  ELSE dedup_loop(candidates, limit_per_article, <<>>, <<>>)

\* candidate lists by the article of each hit
DedupLists ==
  UNION { { [i \in 1 .. n |-> Hit(i, d[i], 0)] : d \in [1 .. n -> Docs] } : n \in 0 .. MaxHits }

DedupCalls ==
  { [fn |-> "dedup_by_article", phase |-> "called", candidates |-> c, limit |-> l,
     result |-> <<>>] : c \in DedupLists, l \in 0 .. MaxLimit }

Dedup ==
  /\ fn_call.fn = "dedup_by_article"
  /\ fn_call.phase = "called"
  /\ fn_call' = Returned_(dedup_by_article(fn_call.candidates, fn_call.limit))
  /\ UNCHANGED callFrame

\* ---- mmr_diversify
MaxTopN == 3
Embeddings == {"x", "y"}

\* np.dot of two normalized embeddings: the modelled ones are orthonormal
cos(a, b) == IF a = b THEN 1 ELSE 0

SetMax(S) == CHOOSE x \in S : \A y \in S : y <= x

\* lambda_ in tenths: the 0.7 of the signature, and an even weighting
Lambdas == {5, 7}

\* lambda_ * rel - (1 - lambda_) * div, times 20 (hybrid_score is counted in
\* units of 1/2, lambda_ in tenths)
mmr_score(cand, selected, lambda_) ==
  lambda_ * cand.hybrid_score
    - 2 * (10 - lambda_)
        * SetMax({cos(cand.emb, selected[k].emb) : k \in 1 .. Len(selected)})

\* mmr_scores.sort(key=..., reverse=True)[0]: the first of the best
best_index(remaining, selected, lambda_) ==
  CHOOSE i \in 1 .. Len(remaining) :
    /\ \A j \in 1 .. Len(remaining) :
         mmr_score(remaining[j], selected, lambda_) <= mmr_score(remaining[i], selected, lambda_)
    /\ \A j \in 1 .. (i - 1) :
         mmr_score(remaining[j], selected, lambda_) < mmr_score(remaining[i], selected, lambda_)

\* remaining.remove(best)
remove_at(s, i) == SubSeq(s, 1, i - 1) \o SubSeq(s, i + 1, Len(s))

RECURSIVE mmr_loop(_, _, _, _)
\* while remaining and len(selected) < topn
mmr_loop(selected, remaining, lambda_, topn) ==
  IF remaining = <<>> \/ ~(Len(selected) < topn) THEN selected
  ELSE mmr_loop(Append(selected, remaining[best_index(remaining, selected, lambda_)]),
                remove_at(remaining, best_index(remaining, selected, lambda_)),
                lambda_, topn)

mmr_diversify(candidates, lambda_, topn) ==
  IF candidates = <<>> THEN <<>>
  ELSE LET remaining == sorted(candidates, "hybrid_score")
       IN  mmr_loop(<<Head(remaining)>>, Tail(remaining), lambda_, topn)

\* candidate lists by hybrid_score and embedding, ties included
MmrLists ==
  UNION { { [i \in 1 .. n |-> [Hit(i, "a", h[i]) EXCEPT !.emb = m[i]]] :
              h \in [1 .. n -> Scores], m \in [1 .. n -> Embeddings] } :
          n \in 0 .. MaxCandidates }

MmrCalls ==
  { [fn |-> "mmr_diversify", phase |-> "called", candidates |-> c, lambda_ |-> l,
     topn |-> t, result |-> <<>>] : c \in MmrLists, l \in Lambdas, t \in 0 .. MaxTopN }

Mmr ==
  /\ fn_call.fn = "mmr_diversify"
  /\ fn_call.phase = "called"
  /\ fn_call' = Returned_(mmr_diversify(fn_call.candidates, fn_call.lambda_, fn_call.topn))
  /\ UNCHANGED callFrame

\* ---- score fusion and candidate construction of the hybrid pipeline
MaxItem == 2
Items == 0 .. MaxItem

\* the hits of one index: item id -> score
HitMaps == UNION { [I -> Scores] : I \in SUBSET Items }

RECURSIVE SortedSeq(_)
\* sorted(set(...))
SortedSeq(S) ==
  IF S = {} THEN <<>>
  ELSE LET m == CHOOSE x \in S : \A y \in S : x <= y
       IN  <<m>> \o SortedSeq(S \ {m})

SetMin(S) == CHOOSE x \in S : \A y \in S : x <= y

\* d_map.get(i, 0.0) for i in ids
score_array(hits, ids) ==
  [k \in 1 .. Len(ids) |-> IF ids[k] \in DOMAIN hits THEN hits[ids[k]] ELSE 0]

\* _minmax, times 2: (x - mn) / (mx - mn + 1e-9); an array of equal scores
\* comes out as zeros
minmax(x) ==
  LET vals == {x[k] : k \in 1 .. Len(x)}
      mn == SetMin(vals)
      mx == SetMax(vals)
  IN  [k \in 1 .. Len(x) |-> IF mx = mn THEN 0 ELSE ((x[k] - mn) * 2) \div (mx - mn)]

\* wd * _minmax(d_arr) + wb * _minmax(b_arr) with wd = 0.6, wb = 0.4, times 20
combine(d_arr, b_arr) ==
  [k \in 1 .. Len(d_arr) |-> 6 * minmax(d_arr)[k] + 4 * minmax(b_arr)[k]]

\* meta[i]: the metadata of item i (len(meta) = MaxItem + 1)
meta_at(i) == [item |-> i]

\* for i, score in enumerate(combo): if i < len(meta): m = meta[i]; ...
\* item is the id the score was computed for, meta the metadata attached
build_candidates(ids, combo) ==
  [k \in 1 .. Len(ids) |->
     [item |-> ids[k], meta |-> meta_at(k - 1), hybrid_score |-> combo[k]]]

fuse(d, b) ==
  LET ids == SortedSeq(DOMAIN d \cup DOMAIN b)
  IN  build_candidates(ids, combine(score_array(d, ids), score_array(b, ids)))

FuseCalls ==
  { c \in { [fn |-> "fuse", phase |-> "called", dense |-> d, bm25 |-> b, result |-> <<>>] :
             d \in HitMaps, b \in HitMaps } :
      DOMAIN c.dense \cup DOMAIN c.bm25 # {} }

Fuse ==
  /\ fn_call.fn = "fuse"
  /\ fn_call.phase = "called"
  /\ fn_call' = Returned_(fuse(fn_call.dense, fn_call.bm25))
  /\ UNCHANGED callFrame

\* ---- CompositeScorer.calculate_composite_score
\* alpha is counted in tenths, composite_score comes out times 10
\* an absent Optional[float]
None == 0 - 1
Alphas == {5, 8}
StrategyNames == {"default", "balanced", "unknown"}

\* reranker.composite_scoring.*: enabled, alpha, strategies
ScorerConfigs ==
  { [enabled |-> en, alpha |-> 8, strategies |-> st] :
      en \in BOOLEAN, st \in {<<>>, <<[name |-> "balanced", alpha |-> 5]>>} }

\* _get_strategy_config
get_strategy_config(scorer_config, strategy) ==
  IF \E k \in 1 .. Len(scorer_config.strategies) : scorer_config.strategies[k].name = strategy
    THEN scorer_config.strategies[CHOOSE k \in 1 .. Len(scorer_config.strategies) :
                             /\ scorer_config.strategies[k].name = strategy
                             /\ \A j \in 1 .. (k - 1) : scorer_config.strategies[j].name # strategy]
    ELSE [name |-> strategy, alpha |-> scorer_config.alpha]

\* (variant: an absent rerank score counts as zero when scoring is enabled)
calculate_composite_score_absent_as_zero(scorer_config, hybrid_score, ce_score, strategy, alpha) ==
  LET effective_alpha ==
        IF alpha # None THEN alpha ELSE get_strategy_config(scorer_config, strategy).alpha
      ce == IF ce_score = None THEN 0 ELSE ce_score
  IN  IF ~scorer_config.enabled
        THEN [composite_score |-> 10 * hybrid_score, strategy |-> "hybrid_only", alpha |-> 0]
        ELSE [composite_score |-> effective_alpha * ce + (10 - effective_alpha) * hybrid_score,
              strategy |-> strategy, alpha |-> effective_alpha]

calculate_composite_score(scorer_config, hybrid_score, ce_score, strategy, alpha) ==
  LET effective_alpha ==
        IF alpha # None THEN alpha ELSE get_strategy_config(scorer_config, strategy).alpha
  IN  IF ~scorer_config.enabled \/ ce_score = None
        THEN [composite_score |-> 10 * hybrid_score, strategy |-> "hybrid_only", alpha |-> 0]
        ELSE [composite_score |-> effective_alpha * ce_score
                                    + (10 - effective_alpha) * hybrid_score,
              strategy |-> strategy, alpha |-> effective_alpha]

CompositeCalls ==
  { [fn |-> "calculate_composite_score", phase |-> "called", config |-> c,
     hybrid_score |-> h, ce_score |-> ce, strategy |-> st, alpha |-> a, result |-> <<>>] :
      c \in ScorerConfigs, h \in Scores, ce \in Scores \cup {None},
      st \in StrategyNames, a \in Alphas \cup {None} }

Composite ==
  /\ fn_call.fn = "calculate_composite_score"
  /\ fn_call.phase = "called"
  /\ fn_call' = Returned_(calculate_composite_score(fn_call.config, fn_call.hybrid_score,
                                                     fn_call.ce_score, fn_call.strategy,
                                                     fn_call.alpha))
  /\ UNCHANGED callFrame

\* ---- the p95 of calculate_slo_metrics
MaxLatencies == 20
MaxSlow == 2

\* windows of latencies in ms: some slow requests (2000) before or after the
\* fast ones (100)
LatencyLists ==
  { [i \in 1 .. n |-> IF (first /\ i <= k) \/ (~first /\ i > n - k) THEN 2000 ELSE 100] :
      n \in 1 .. MaxLatencies, k \in 0 .. MaxSlow, first \in BOOLEAN }

RECURSIVE InsertAsc(_, _)
InsertAsc(x, s) ==
  IF s = <<>> THEN <<x>>
  ELSE IF Head(s) <= x THEN <<Head(s)>> \o InsertAsc(x, Tail(s))
  ELSE <<x>> \o s

RECURSIVE sorted_asc(_)
\* sorted(data)
sorted_asc(s) ==
  IF s = <<>> THEN <<>> ELSE InsertAsc(s[Len(s)], sorted_asc(SubSeq(s, 1, Len(s) - 1)))

\* statistics.quantiles(data, n=n)[i - 1], method "exclusive", times n
quantile(data, n, i) ==
  LET ld == Len(data)
      m == ld + 1
      j0 == (i * m) \div n
      j == IF j0 < 1 THEN 1 ELSE IF j0 > ld - 1 THEN ld - 1 ELSE j0
      delta == i * m - j * n
      d == sorted_asc(data)
  IN  d[j] * (n - delta) + d[j + 1] * delta

\* p95_latency_ms, times 20
p95_latency_ms(latencies) ==
  IF Len(latencies) > 1 THEN quantile(latencies, 20, 19) ELSE 20 * latencies[1]

QuantileCalls ==
  { [fn |-> "p95_latency_ms", phase |-> "called", latencies |-> l, result |-> <<>>] :
      l \in LatencyLists }

Quantile ==
  /\ fn_call.fn = "p95_latency_ms"
  /\ fn_call.phase = "called"
  /\ fn_call' = Returned_(p95_latency_ms(fn_call.latencies))
  /\ UNCHANGED callFrame

\* ---- the specification of the calls
InitPipeline ==
  /\ config = CanaryConfig
  /\ config_file = save_config(CanaryConfig, AbsentFile, "ok")
  /\ metrics_buffer = <<>>
  /\ user_hash = UserDigest
  /\ now = 0
  /\ pc = "sleep"
  /\ last_iter = "none"
  /\ last_op = "init"
  /\ cache = {}
  /\ last_req = NoRequest
  /\ served = [requests |-> 0, errors |-> 0]
  /\ rerank_call = NoCall
  /\ tfidf = "ok"
  /\ InitSLO
  /\ fn_call \in DedupCalls \cup MmrCalls \cup FuseCalls \cup CompositeCalls \cup QuantileCalls

NextPipeline ==
  \/ Dedup
  \/ Mmr
  \/ Fuse
  \/ Composite
  \/ Quantile

SpecPipeline == InitPipeline /\ [][NextPipeline]_vars

\* the call of fn has returned
Done(fn) == fn_call.fn = fn /\ fn_call.phase = "returned"

\* how many candidates before position i belong to the article of c[i]
EarlierOfArticle(c, i) == Cardinality({j \in 1 .. (i - 1) : c[j].doc_id = c[i].doc_id})

RECURSIVE FirstOfEachArticle(_, _, _)
\* the candidates of c from position i on that are among the first L of
\* their article, in input order
FirstOfEachArticle(c, L, i) ==
  IF i > Len(c) THEN <<>>
  ELSE (IF EarlierOfArticle(c, i) < L THEN <<c[i]>> ELSE <<>>)
         \o FirstOfEachArticle(c, L, i + 1)

\* C23: for every candidate list and every limit_per_article L >= 0 the
\* output of dedup_by_article contains no doc_id more than L times and is a
\* sub-sequence of the input in input order: exactly the first L
\* occurrences of each doc_id.
C23_DedupKeepsFirstL ==
  Done("dedup_by_article")
    => /\ fn_call.result = FirstOfEachArticle(fn_call.candidates, fn_call.limit, 1)
       /\ \A doc \in Docs :
            Cardinality({k \in 1 .. Len(fn_call.result) : fn_call.result[k].doc_id = doc})
              <= fn_call.limit

\* a list with three hits of one article and a hit of another between them
\* came back without the third hit
C23_Witness ==
  /\ Done("dedup_by_article")
  /\ fn_call.limit = 2
  /\ Len(fn_call.candidates) = 4
  /\ Len(fn_call.result) = 3
  /\ fn_call.candidates[3].doc_id # fn_call.candidates[4].doc_id

\* C24: for every candidate list and every topN >= 0, mmr_diversify returns
\* exactly min(topN, |candidates|) candidates, none of them twice, and the
\* first of them (if any) has the maximum hybrid_score of the input.
C24_MmrSizeAndHead ==
  Done("mmr_diversify")
    => /\ Len(fn_call.result) = Min(fn_call.topn, Len(fn_call.candidates))
       /\ \A i, j \in 1 .. Len(fn_call.result) :
            fn_call.result[i].chunk_id = fn_call.result[j].chunk_id => i = j
       /\ fn_call.result # <<>> =>
            \A k \in 1 .. Len(fn_call.candidates) :
              fn_call.candidates[k].hybrid_score <= fn_call.result[1].hybrid_score

\* C25: in the hybrid pipeline every candidate carries the fused score of
\* its own item: the candidate built for item id i has the metadata of item
\* i and hybrid_score = denseWeight * norm(dense)[i] + sparseWeight *
\* norm(sparse)[i], for every item id in the union of the dense and lexical
\* hits.
C25_CandidateOfItsItem ==
  Done("fuse")
    => LET ids == SortedSeq(DOMAIN fn_call.dense \cup DOMAIN fn_call.bm25)
       IN  /\ Len(fn_call.result) = Len(ids)
           /\ \A k \in 1 .. Len(ids) :
                /\ fn_call.result[k].item = ids[k]
                /\ fn_call.result[k].meta = meta_at(ids[k])
                /\ fn_call.result[k].hybrid_score =
                     6 * minmax(score_array(fn_call.dense, ids))[k]
                       + 4 * minmax(score_array(fn_call.bm25, ids))[k]

\* C26: the p95 latency of calculate_slo_metrics is the nearest-rank 95th
\* percentile of the windowed latencies, the value at rank ceil(0.95 * n) of
\* the sorted latencies; nineteen latencies of 100 ms and one of 2000 ms
\* give 100 ms.
C26_P95IsNearestRank ==
  Done("p95_latency_ms")
    => fn_call.result
         = 20 * sorted_asc(fn_call.latencies)[(19 * Len(fn_call.latencies) + 19) \div 20]

\* C30: calculate_composite_score returns composite_score = hybrid_score,
\* with the strategy reported as "hybrid_only", whenever the rerank score is
\* absent or composite scoring is globally disabled, for every strategy
\* name, the names that are not configured included.
C30_HybridOnlyWhenAbsentOrDisabled ==
  (Done("calculate_composite_score") /\ (fn_call.ce_score = None \/ ~fn_call.config.enabled))
    => /\ fn_call.result.composite_score = 10 * fn_call.hybrid_score
       /\ fn_call.result.strategy = "hybrid_only"

\* scoring is enabled, the strategy is not configured and no rerank score
\* came with a positive hybrid score
C30_Witness ==
  /\ Done("calculate_composite_score")
  /\ fn_call.config.enabled
  /\ fn_call.ce_score = None
  /\ fn_call.strategy = "unknown"
  /\ fn_call.hybrid_score > 0
  /\ fn_call.result.strategy = "hybrid_only"

\* ------------------------------------------------------- the SLO monitor
\* Time is in minutes.  The buffer of the model holds MetricsCapacity points
\* where the monitor's holds 10000.
MetricsCapacity == 2
MaxRecorded == 3
MaxClock == 6

\* the endpoints the handlers record; only /search has a target
SLOEndpoints == {"search", "generate"}

\* what a request can report: fast or slow, a success, a redirect or a
\* server error, with or without the fallback (rerank_enabled, cache_hit
\* and error_message are stored and never read by the evaluation)
MetricKinds ==
  { [endpoint |-> "search", latency_ms |-> 100, status_code |-> 200, fallback_used |-> FALSE],
    [endpoint |-> "search", latency_ms |-> 2000, status_code |-> 200, fallback_used |-> FALSE],
    [endpoint |-> "search", latency_ms |-> 100, status_code |-> 200, fallback_used |-> TRUE],
    [endpoint |-> "search", latency_ms |-> 100, status_code |-> 302, fallback_used |-> FALSE],
    [endpoint |-> "search", latency_ms |-> 100, status_code |-> 500, fallback_used |-> TRUE],
    [endpoint |-> "generate", latency_ms |-> 2000, status_code |-> 500, fallback_used |-> TRUE] }

\* target_success_rate in thousandths, alert_threshold in tenths
slo_targets ==
  ("search" :> [target_p95_ms |-> 800, target_success_rate |-> 995,
                window_minutes |-> 5, alert_threshold |-> 9])
  @@ ("ask" :> [target_p95_ms |-> 1000, target_success_rate |-> 990,
                window_minutes |-> 5, alert_threshold |-> 9])

WindowChoices == {0, 5}

\* the clock moves by a whole window, or by a minute more than one
ClockSteps == {5, 6}

\* (variant: a full buffer refuses the new point)
deque_append_keeps_oldest(buffer, metric) ==
  IF Len(buffer) >= MetricsCapacity THEN buffer ELSE Append(buffer, metric)

\* deque(maxlen=...).append: a full deque drops its leftmost item
deque_append(buffer, metric) ==
  IF Len(buffer) >= MetricsCapacity
    THEN Append(Tail(buffer), metric)
    ELSE Append(buffer, metric)

\* MetricPoint(timestamp=time.time(), ...); seq is the number of the call,
\* kept to tell the points apart
MetricPoint(kind, timestamp, seq) ==
  [timestamp |-> timestamp, seq |-> seq, endpoint |-> kind.endpoint,
   latency_ms |-> kind.latency_ms, status_code |-> kind.status_code,
   fallback_used |-> kind.fallback_used]

RecordMetric ==
  /\ slo_recorded < MaxRecorded
  /\ \E kind \in MetricKinds, io \in IOOutcomes :
       /\ slo_buffer' = deque_append(slo_buffer, MetricPoint(kind, now, slo_recorded + 1))
       /\ slo_recorded' = slo_recorded + 1
       /\ slo_file' = IF io = "ok" THEN slo_file + 1 ELSE slo_file
       /\ fn_call' = [fn |-> "record_metric", phase |-> "returned"]
  /\ UNCHANGED <<gateVars, cache, last_req, served, rerank_call, tfidf, sideVars>>

Count(s, Test(_)) == Len(SelectSeq(s, Test))

successful(m) == 200 <= m.status_code /\ m.status_code < 300

latencies_of(s) == [i \in 1 .. Len(s) |-> s[i].latency_ms]

\* calculate_slo_metrics: <<>> for None, else the SLOMetrics in a 1-tuple.
\* The rates are kept as their numerators over total_requests;
\* p95_latency_ms is times 20.
calculate_slo_metrics(buffer, current_time, endpoint, window_minutes) ==
  LET window_start == current_time - window_minutes
      in_window(m) == m.endpoint = endpoint /\ m.timestamp >= window_start
      window_metrics == SelectSeq(buffer, in_window)
      total_requests == Len(window_metrics)
      successful_requests == Count(window_metrics, successful)
      fallback(m) == m.fallback_used
  IN  IF window_metrics = <<>>
        THEN <<>>
        ELSE << [window_start |-> window_start,
                 window_end |-> current_time,
                 total_requests |-> total_requests,
                 successful_requests |-> successful_requests,
                 failed_requests |-> total_requests - successful_requests,
                 p95_latency_ms |-> p95_latency_ms(latencies_of(window_metrics)),
                 fallback_requests |-> Count(window_metrics, fallback)] >>

CalculateSLOMetrics ==
  /\ \E endpoint \in SLOEndpoints, window_minutes \in WindowChoices :
       fn_call' = [fn |-> "calculate_slo_metrics", phase |-> "returned",
                   endpoint |-> endpoint, window_minutes |-> window_minutes,
                   result |-> calculate_slo_metrics(slo_buffer, now, endpoint, window_minutes)]
  /\ UNCHANGED <<gateVars, cache, last_req, served, rerank_call, tfidf,
                 slo_buffer, slo_recorded, slo_file, sideVars>>

Violation(type, severity) == [type |-> type, severity |-> severity]

\* the four tests of check_slo_violations, on integers:
\*   success_rate < target_success_rate
\*   error_rate > (1 - target_success_rate) * alert_threshold
\*   fallback_rate > 0.1
latency_exceeded(metrics, target) == metrics.p95_latency_ms > 20 * target.target_p95_ms

success_rate_low(metrics, target) ==
  1000 * metrics.successful_requests < target.target_success_rate * metrics.total_requests

error_rate_high(metrics, target) ==
  10000 * metrics.failed_requests
    > (1000 - target.target_success_rate) * target.alert_threshold * metrics.total_requests

fallback_rate_high(metrics) == 10 * metrics.fallback_requests > metrics.total_requests

\* (variant: the tests are chained, the first that fires ends the evaluation)
violations_of_first_match(metrics, target) ==
  IF latency_exceeded(metrics, target)
    THEN <<Violation("latency_slo_violation", "warning")>>
  ELSE IF success_rate_low(metrics, target)
    THEN <<Violation("success_rate_slo_violation", "critical")>>
  ELSE IF error_rate_high(metrics, target)
    THEN <<Violation("error_rate_threshold", "warning")>>
  ELSE IF fallback_rate_high(metrics)
    THEN <<Violation("high_fallback_rate", "warning")>>
  ELSE <<>>

violations_of(metrics, target) ==
  (IF latency_exceeded(metrics, target)
     THEN <<Violation("latency_slo_violation", "warning")>> ELSE <<>>)
  \o (IF success_rate_low(metrics, target)
        THEN <<Violation("success_rate_slo_violation", "critical")>> ELSE <<>>)
  \o (IF error_rate_high(metrics, target)
        THEN <<Violation("error_rate_threshold", "warning")>> ELSE <<>>)
  \o (IF fallback_rate_high(metrics)
        THEN <<Violation("high_fallback_rate", "warning")>> ELSE <<>>)

check_slo_violations(buffer, current_time, endpoint) ==
  IF endpoint \notin DOMAIN slo_targets
    THEN <<>>
    ELSE LET target == slo_targets[endpoint]
             metrics == calculate_slo_metrics(buffer, current_time, endpoint,
                                              target.window_minutes)
         IN  IF metrics = <<>> THEN <<>> ELSE violations_of(metrics[1], target)

CheckSLOViolations ==
  /\ \E endpoint \in SLOEndpoints :
       fn_call' = [fn |-> "check_slo_violations", phase |-> "returned",
                   endpoint |-> endpoint, current_time |-> now,
                   result |-> check_slo_violations(slo_buffer, now, endpoint)]
  /\ UNCHANGED <<gateVars, cache, last_req, served, rerank_call, tfidf,
                 slo_buffer, slo_recorded, slo_file, sideVars>>

Elapse ==
  /\ \E d \in ClockSteps :
       /\ now + d <= MaxClock
       /\ now' = now + d
  /\ UNCHANGED <<config, config_file, metrics_buffer, user_hash, pc, last_iter, last_op,
                 serveVars>>

InitMonitor ==
  /\ config = CanaryConfig
  /\ config_file = save_config(CanaryConfig, AbsentFile, "ok")
  /\ metrics_buffer = <<>>
  /\ user_hash = UserDigest
  /\ now = 0
  /\ pc = "sleep"
  /\ last_iter = "none"
  /\ last_op = "init"
  /\ cache = {}
  /\ last_req = NoRequest
  /\ served = [requests |-> 0, errors |-> 0]
  /\ rerank_call = NoCall
  /\ tfidf = "ok"
  /\ InitSLO
  /\ fn_call = NoFn

NextMonitor ==
  \/ RecordMetric
  \/ CalculateSLOMetrics
  \/ CheckSLOViolations
  \/ Elapse

SpecMonitor == InitMonitor /\ [][NextMonitor]_vars

\* the points of the buffer that a window ending at `at` holds for an endpoint
InWindow(endpoint, at, window_minutes) ==
  { i \in 1 .. Len(slo_buffer) :
      /\ slo_buffer[i].endpoint = endpoint
      /\ slo_buffer[i].timestamp >= at - window_minutes }

\* C27: a windowed request counts as successful exactly when its status
\* code is below 400, so that 3xx outcomes are successes; success_rate is
\* successes / total and error_rate is 1 - success_rate, both over the
\* points of the endpoint whose timestamp lies inside the window.
C27_SuccessBelow400 ==
  (fn_call.fn = "calculate_slo_metrics" /\ fn_call.result # <<>>)
    => LET m == fn_call.result[1]
           window == InWindow(fn_call.endpoint, m.window_end, fn_call.window_minutes)
       IN  /\ m.total_requests = Cardinality(window)
           /\ m.successful_requests
                = Cardinality({i \in window : slo_buffer[i].status_code < 400})
           /\ m.failed_requests = m.total_requests - m.successful_requests

HasViolation(result, type, severity) ==
  \E k \in 1 .. Len(result) : result[k] = Violation(type, severity)

Truth(b) == IF b THEN 1 ELSE 0

\* C28: check_slo_violations evaluates its four rules independently: the
\* list it returns holds latency_slo_violation (warning) iff p95 >
\* target_p95_ms, success_rate_slo_violation (critical) iff success_rate <
\* target_success_rate, error_rate_threshold (warning) iff error_rate > (1 -
\* target_success_rate) * alert_threshold, high_fallback_rate (warning) iff
\* fallback_rate > 0.1, and nothing else; an unknown endpoint or an empty
\* window yields no violation.
C28_RulesIndependent ==
  fn_call.fn = "check_slo_violations"
    => LET result == fn_call.result
           known == fn_call.endpoint \in DOMAIN slo_targets
           target == slo_targets[fn_call.endpoint]
           window == InWindow(fn_call.endpoint, fn_call.current_time, target.window_minutes)
           total == Cardinality(window)
           ok == Cardinality({i \in window : successful(slo_buffer[i])})
           fell == Cardinality({i \in window : slo_buffer[i].fallback_used})
           p95 == p95_latency_ms([k \in 1 .. total |->
                    SelectSeq(slo_buffer,
                              LAMBDA m : m.seq \in {slo_buffer[i].seq : i \in window})[k].latency_ms])
           late == p95 > 20 * target.target_p95_ms
           low == 1000 * ok < target.target_success_rate * total
           high == 10000 * (total - ok)
                     > (1000 - target.target_success_rate) * target.alert_threshold * total
           fallen == 10 * fell > total
       IN  IF ~known \/ total = 0
             THEN result = <<>>
             ELSE /\ HasViolation(result, "latency_slo_violation", "warning") <=> late
                  /\ HasViolation(result, "success_rate_slo_violation", "critical") <=> low
                  /\ HasViolation(result, "error_rate_threshold", "warning") <=> high
                  /\ HasViolation(result, "high_fallback_rate", "warning") <=> fallen
                  /\ Len(result) = Truth(late) + Truth(low) + Truth(high) + Truth(fallen)

\* the window is slow and nothing else is wrong with it: the latency rule
\* fires alone
C28_Witness ==
  /\ fn_call.fn = "check_slo_violations"
  /\ fn_call.result = <<Violation("latency_slo_violation", "warning")>>
  /\ \E i \in 1 .. Len(slo_buffer) : slo_buffer[i].endpoint = "generate"

\* C29: the metrics buffer never holds more than its capacity; a call of
\* record_metric on a full buffer evicts exactly the oldest point, so that
\* the buffer always holds the most recent points in arrival order; no
\* stored point is ever modified.
C29_BufferHoldsMostRecent ==
  /\ [](/\ Len(slo_buffer) <= MetricsCapacity
        /\ Len(slo_buffer) = (IF slo_recorded < MetricsCapacity
                                THEN slo_recorded ELSE MetricsCapacity)
        /\ \A i \in 1 .. Len(slo_buffer) :
             slo_buffer[i].seq = slo_recorded - Len(slo_buffer) + i)
  /\ [][\A i \in 1 .. Len(slo_buffer), j \in 1 .. Len(slo_buffer') :
          slo_buffer[i].seq = slo_buffer'[j].seq => slo_buffer[i] = slo_buffer'[j]]_vars

\* a full buffer took one more point
C29_Witness ==
  /\ slo_recorded > MetricsCapacity
  /\ Len(slo_buffer) = MetricsCapacity
  /\ slo_buffer[1].seq = slo_recorded - MetricsCapacity + 1

\* ------------------------------------------------- the admin endpoints
AdminEndpoints == {"update_canary_rollout_endpoint", "enable_canary_endpoint"}

\* "0.0 <= percentage <= 1.0"
in_range(percentage) == 0 <= percentage /\ percentage <= RolloutScale

AdminResponse(endpoint, percentage, status) ==
  [fn |-> endpoint, phase |-> "returned", percentage |-> percentage, status |-> status]

\* update_canary_rollout_endpoint and enable_canary_endpoint: the range test
\* raises HTTPException(400) inside the try block whose "except Exception"
\* answers 500 with the text of the exception
admin_set_rollout(endpoint, percentage, by, io) ==
  IF ~in_range(percentage)
    THEN /\ fn_call' = AdminResponse(endpoint, percentage, 500)
         /\ UNCHANGED <<config, config_file, last_op>>
    ELSE /\ IF endpoint = "enable_canary_endpoint"
              THEN enable_canary(percentage, by, io)
              ELSE update_rollout_percentage(percentage, by, io)
         /\ fn_call' = AdminResponse(endpoint, percentage, 200)

AdminSetRollout ==
  /\ \E endpoint \in AdminEndpoints, percentage \in Percentages,
        by \in Actors, io \in IOOutcomes :
       admin_set_rollout(endpoint, percentage, by, io)
  /\ UNCHANGED <<metrics_buffer, user_hash, now, pc, last_iter,
                 cache, last_req, served, rerank_call, tfidf,
                 slo_buffer, slo_recorded, slo_file, sideVars>>

InitAdmin == InitMonitor

NextAdmin ==
  \/ AdminSetRollout
  \/ EmergencyStop
  \/ ClearEmergencyStop
  \/ Tick

SpecAdmin == InitAdmin /\ [][NextAdmin]_vars

\* C31: an admin rollout-update or enable request whose percentage lies
\* outside [0.0, 1.0] is answered 400 at once, and the CanaryConfig, in
\* memory and on disk, is left as it was.
C31_OutOfRangeIs400 ==
  [][ ( /\ fn_call' # fn_call
        /\ fn_call'.fn \in AdminEndpoints
        /\ ~in_range(fn_call'.percentage) )
        => /\ fn_call'.status = 400
           /\ config' = config
           /\ config_file' = config_file ]_vars

\* ------------------------------------------------------ the rate limiter
\* Time is in seconds.  Every call passes the same max_requests and
\* window_seconds.
Clients == {"client1", "client2"}
MaxRequests == 2
WindowSeconds == 2
MaxSeconds == 4

\* json.dump(self.rate_limits, f) inside try/except.  The file is kept as
\* what it is next to the dictionary: "absent", "current" (the dictionary as
\* it is now), "stale" (an earlier dictionary) or "corrupt".
save_rate_limits(file, io) ==
  CASE io = "ok" -> "current"
    [] io = "open_fail" -> IF file = "current" THEN "stale" ELSE file
    [] io = "write_fail" -> "corrupt"

\* _cleanup_old_entries: "entry > cutoff_time"
cleanup_old_entries(rate_limits, client_id, current_time, window_seconds) ==
  LET cutoff_time == current_time - window_seconds
      recent(entry) == entry > cutoff_time
  IN  IF client_id \in DOMAIN rate_limits
        THEN [rate_limits EXCEPT ![client_id] = SelectSeq(@, recent)]
        ELSE rate_limits

\* (variant: the request that reaches the limit is let through as well)
has_room_inclusive(current_requests, max_requests) == current_requests <= max_requests

\* "if current_requests < max_requests:"
has_room(current_requests, max_requests) == current_requests < max_requests

\* is_allowed: what it returns, the dictionary it leaves and whether it saved
is_allowed(rate_limits, client_id, current_time, max_requests, window_seconds) ==
  LET initialised == IF client_id \in DOMAIN rate_limits
                       THEN rate_limits
                       ELSE (client_id :> <<>>) @@ rate_limits
      cleaned == cleanup_old_entries(initialised, client_id, current_time, window_seconds)
      current_requests == Len(cleaned[client_id])
      rate_info == [requests |-> current_requests,
                    limit |-> max_requests,
                    window_seconds |-> window_seconds,
                    reset_time |-> current_time + window_seconds,
                    remaining |-> Max(0, max_requests - current_requests)]
  IN  IF has_room(current_requests, max_requests)
        THEN [allowed |-> TRUE, rate_info |-> rate_info,
              rate_limits |-> [cleaned EXCEPT ![client_id] = Append(@, current_time)]]
        ELSE [allowed |-> FALSE, rate_info |-> rate_info, rate_limits |-> cleaned]

Admitted(client_id) ==
  IF client_id \in DOMAIN limiter.admitted THEN limiter.admitted[client_id] ELSE <<>>

IsAllowed ==
  /\ \E client_id \in Clients, io \in IOOutcomes :
       LET r == is_allowed(limiter.rate_limits, client_id, now, MaxRequests, WindowSeconds)
       IN  /\ limiter' =
                [rate_limits |-> r.rate_limits,
                 file |-> IF r.allowed
                            THEN save_rate_limits(limiter.file, io)
                            ELSE IF limiter.file = "current"
                                      /\ r.rate_limits # limiter.rate_limits
                                   THEN "stale"
                                   ELSE limiter.file,
                 admitted |-> IF r.allowed
                                THEN (client_id :> Append(Admitted(client_id), now))
                                       @@ limiter.admitted
                                ELSE limiter.admitted]
           /\ fn_call' = [fn |-> "is_allowed", phase |-> "returned",
                          client_id |-> client_id, current_time |-> now,
                          allowed |-> r.allowed, rate_info |-> r.rate_info]
  /\ UNCHANGED <<gateVars, cache, last_req, served, rerank_call, tfidf,
                 slo_buffer, slo_recorded, slo_file, lock, threads, evaluation, history>>

Second ==
  /\ now < MaxSeconds
  /\ now' = now + 1
  /\ UNCHANGED <<config, config_file, metrics_buffer, user_hash, pc, last_iter, last_op,
                 serveVars>>

InitLimiter == InitMonitor

NextLimiter ==
  \/ IsAllowed
  \/ Second

SpecLimiter == InitLimiter /\ [][NextLimiter]_vars

\* how many requests of a client were admitted in the window that ends at t
AdmittedIn(client_id, t) ==
  Cardinality({i \in 1 .. Len(Admitted(client_id)) :
                 /\ Admitted(client_id)[i] > t - WindowSeconds
                 /\ Admitted(client_id)[i] <= t})

\* C32: with fixed max_requests and window_seconds, at most max_requests
\* requests of a client are allowed within any sliding window; a call is
\* denied, with remaining = 0, exactly when max_requests requests of that
\* client lie inside the window, so that the client is allowed again once
\* the earlier requests have left it; the calls of a client leave the
\* entries of the other clients alone.
C32_AtMostMaxPerWindow ==
  /\ [](/\ \A client_id \in Clients, t \in 0 .. MaxSeconds :
             AdmittedIn(client_id, t) <= MaxRequests
        /\ (fn_call.fn = "is_allowed" /\ ~fn_call.allowed)
             => /\ fn_call.rate_info.remaining = 0
                /\ AdmittedIn(fn_call.client_id, fn_call.current_time) = MaxRequests
        /\ \A client_id \in DOMAIN limiter.rate_limits :
             Len(limiter.rate_limits[client_id]) <= MaxRequests)
  /\ [][\A client_id \in Clients :
          (fn_call'.fn = "is_allowed" /\ fn_call'.client_id # client_id)
            => /\ Admitted(client_id)' = Admitted(client_id)
               /\ (client_id \in DOMAIN limiter.rate_limits
                     => limiter'.rate_limits[client_id] = limiter.rate_limits[client_id])]_vars

\* a client that had used up its window is allowed again, while another
\* client has requests of its own
C32_Witness ==
  /\ fn_call.fn = "is_allowed"
  /\ fn_call.allowed
  /\ Len(Admitted(fn_call.client_id)) > MaxRequests
  /\ \E other \in Clients \ {fn_call.client_id} : Len(Admitted(other)) > 0

\* C33: for an allowed request the rate information reports remaining =
\* max_requests minus the number of the client's requests in the window,
\* the request just admitted included, and limit = max_requests (the first
\* request of a new client with max_requests = 10: remaining 9, limit 10).
C33_RemainingCountsThisRequest ==
  (fn_call.fn = "is_allowed" /\ fn_call.allowed)
    => /\ fn_call.rate_info.limit = MaxRequests
       /\ fn_call.rate_info.remaining
            = MaxRequests - AdmittedIn(fn_call.client_id, fn_call.current_time)

\* ------------------------------------------- threads inside the gate
\* Two threads each call one mutator of the CanaryManager while a third
\* calls is_rerank_enabled_for_user.  A mutator is the statements of its
\* "with self.lock:" block, one step each.
Mutators == {"t1", "t2"}
Reader == "r"

Call(op, percentage, by) == [op |-> op, percentage |-> percentage, by |-> by]

\* an admin's update, the SafetyLoop's disable_canary("auto_rollback"), and
\* the two emergency calls
MutatorCalls ==
  { Call("update_rollout_percentage", 1, "admin"),
    Call("update_rollout_percentage", 0, "auto_rollback"),
    Call("emergency_stop", 0, "admin"),
    Call("clear_emergency_stop", 0, "admin") }

\* the gate as construction leaves it, and a gate stopped at full rollout
BaseConfigs ==
  { CanaryConfig,
    [CanaryConfig EXCEPT !.enabled = TRUE, !.rollout_percentage = RolloutScale,
                         !.emergency_stop = TRUE] }

ReaderUsers == {"u1", "u2"}

\* (variant: the method body runs without taking the lock)
may_acquire_unlocked(t) == TRUE

\* "with self.lock:" (threading.Lock, not reentrant)
may_acquire(t) == lock = "free"

ThreadStep(t, next) == [threads EXCEPT !.of[t].pc = next]

Acquire(t) ==
  /\ threads.of[t].pc = "acquire"
  /\ may_acquire(t)
  /\ lock' = t
  /\ threads' = ThreadStep(t, IF t = Reader THEN "decide" ELSE "set_value")
  /\ UNCHANGED <<gateVars, cache, last_req, served, rerank_call, tfidf,
                 fn_call, slo_buffer, slo_recorded, slo_file, limiter, evaluation, history>>

\* the assignments of update_rollout_percentage, emergency_stop and
\* clear_emergency_stop, in the order of the source ("enabled = percentage >
\* 0.0" tests the local, clamped value)
mutator_write(step, call) ==
  CASE step = "set_value" /\ call.op = "update_rollout_percentage"
         -> [config EXCEPT !.rollout_percentage = clamp(call.percentage)]
    [] step = "set_value" /\ call.op = "emergency_stop"
         -> [config EXCEPT !.emergency_stop = TRUE]
    [] step = "set_value" /\ call.op = "clear_emergency_stop"
         -> [config EXCEPT !.emergency_stop = FALSE]
    [] step = "set_enabled" -> [config EXCEPT !.enabled = clamp(call.percentage) > 0]
    [] step = "set_last_updated" -> [config EXCEPT !.last_updated = now]
    [] step = "set_updated_by" -> [config EXCEPT !.updated_by = call.by]

mutator_next(step, call) ==
  CASE step = "set_value" ->
         IF call.op = "update_rollout_percentage" THEN "set_enabled" ELSE "set_last_updated"
    [] step = "set_enabled" -> "set_last_updated"
    [] step = "set_last_updated" -> "set_updated_by"
    [] step = "set_updated_by" -> "save"

Write(t) ==
  /\ t \in Mutators
  /\ threads.of[t].pc \in {"set_value", "set_enabled", "set_last_updated", "set_updated_by"}
  /\ LET th == threads.of[t]
     IN  /\ config' = mutator_write(th.pc, th.call)
         /\ threads' = ThreadStep(t, mutator_next(th.pc, th.call))
  /\ UNCHANGED <<config_file, metrics_buffer, user_hash, now, pc, last_iter, last_op,
                 cache, last_req, served, rerank_call, tfidf,
                 fn_call, slo_buffer, slo_recorded, slo_file, limiter, lock, evaluation, history>>

\* self._save_config(), the last statement of the block; the lock is
\* released when the block is left
SaveAndRelease(t) ==
  /\ t \in Mutators
  /\ threads.of[t].pc = "save"
  /\ \E io \in IOOutcomes : config_file' = save_config(config, config_file, io)
  /\ last_op' = threads.of[t].call.op
  /\ lock' = "free"
  /\ threads' = ThreadStep(t, "returned")
  /\ UNCHANGED <<config, metrics_buffer, user_hash, now, pc, last_iter,
                 cache, last_req, served, rerank_call, tfidf,
                 fn_call, slo_buffer, slo_recorded, slo_file, limiter, evaluation, history>>

\* is_rerank_enabled_for_user is called; the mutators that have returned by
\* now are noted
BeginRead ==
  /\ threads.of[Reader].pc = "idle"
  /\ threads' = [threads EXCEPT !.of[Reader].pc = "acquire",
                                !.of[Reader].after =
                                  {t \in Mutators : threads.of[t].pc = "returned"}]
  /\ UNCHANGED <<gateVars, cache, last_req, served, rerank_call, tfidf,
                 fn_call, slo_buffer, slo_recorded, slo_file, limiter, lock, evaluation, history>>

\* the body of is_rerank_enabled_for_user, then the lock is released
DecideAndRelease ==
  /\ threads.of[Reader].pc = "decide"
  /\ lock' = "free"
  /\ threads' = [threads EXCEPT !.of[Reader].pc = "returned",
                                !.of[Reader].result =
                                  is_rerank_enabled_for_user(threads.of[Reader].user)]
  /\ UNCHANGED <<gateVars, cache, last_req, served, rerank_call, tfidf,
                 fn_call, slo_buffer, slo_recorded, slo_file, limiter, evaluation, history>>

InitThreads ==
  /\ config \in BaseConfigs
  /\ config_file = save_config(config, AbsentFile, "ok")
  /\ metrics_buffer = <<>>
  /\ user_hash = UserDigest
  /\ now = 0
  /\ pc = "sleep"
  /\ last_iter = "none"
  /\ last_op = "init"
  /\ cache = {}
  /\ last_req = NoRequest
  /\ served = [requests |-> 0, errors |-> 0]
  /\ rerank_call = NoCall
  /\ tfidf = "ok"
  /\ fn_call = NoFn
  /\ slo_buffer = <<>>
  /\ slo_recorded = 0
  /\ slo_file = 0
  /\ limiter = NoLimiter
  /\ lock = "free"
  /\ evaluation = NoEvaluation
  /\ history = NoHistory
  /\ \E c1 \in MutatorCalls, c2 \in MutatorCalls, u \in ReaderUsers :
       threads = [base |-> config,
                  of |-> ("t1" :> [call |-> c1, pc |-> "acquire"])
                         @@ ("t2" :> [call |-> c2, pc |-> "acquire"])
                         @@ (Reader :> [user |-> u, pc |-> "idle",
                                        after |-> {}, result |-> FALSE])]

NextThreads ==
  \/ \E t \in Mutators \cup {Reader} : Acquire(t)
  \/ \E t \in Mutators : Write(t)
  \/ \E t \in Mutators : SaveAndRelease(t)
  \/ BeginRead
  \/ DecideAndRelease

SpecThreads == InitThreads /\ [][NextThreads]_vars

\* what a mutator makes of a CanaryConfig when it runs alone
Applied(c, call) ==
  CASE call.op = "update_rollout_percentage"
         -> [c EXCEPT !.rollout_percentage = Max(0, Min(RolloutScale, call.percentage)),
                      !.enabled = Max(0, Min(RolloutScale, call.percentage)) > 0,
                      !.last_updated = now,
                      !.updated_by = call.by]
    [] call.op = "emergency_stop"
         -> [c EXCEPT !.emergency_stop = TRUE, !.last_updated = now, !.updated_by = call.by]
    [] call.op = "clear_emergency_stop"
         -> [c EXCEPT !.emergency_stop = FALSE, !.last_updated = now, !.updated_by = call.by]

RECURSIVE SerialResults(_)
\* the configurations that the calls of the threads in S leave when they run
\* one after the other, in every order
SerialResults(S) ==
  IF S = {}
    THEN {threads.base}
    ELSE UNION { { Applied(c, threads.of[t].call) : c \in SerialResults(S \ {t}) } : t \in S }

DecisionUnder(c, u) ==
  /\ ~c.emergency_stop
  /\ c.enabled
  /\ c.rollout_percentage > 0
  /\ (c.rollout_percentage >= RolloutScale \/ UserDigest[u] < c.rollout_percentage)

AllReturned(S) == \A t \in S : threads.of[t].pc = "returned"

\* C34: concurrent gate mutators are serialized by the gate's lock:
\* whenever no thread is inside a mutator, the CanaryConfig is what the
\* mutators that have returned leave when applied in some sequential order
\* (no torn mix of fields, no effect lost), and a call of
\* is_rerank_enabled_for_user that started after a mutator returned decides
\* on a configuration that holds that mutation or a later one.
C34_MutatorsSerialized ==
  /\ lock = "free"
       => config \in SerialResults({t \in Mutators : threads.of[t].pc = "returned"})
  /\ threads.of[Reader].pc = "returned"
       => \E S \in SUBSET Mutators :
            /\ threads.of[Reader].after \subseteq S
            /\ \E c \in SerialResults(S) :
                 threads.of[Reader].result = DecisionUnder(c, threads.of[Reader].user)

\* an admin's update and the auto-rollback both returned, the update last,
\* and the reader that started after the rollback saw the update
C34_Witness ==
  /\ AllReturned(Mutators \cup {Reader})
  /\ threads.of["t1"].call = Call("update_rollout_percentage", 1, "admin")
  /\ threads.of["t2"].call = Call("update_rollout_percentage", 0, "auto_rollback")
  /\ threads.of[Reader].after = {"t2"}
  /\ threads.of[Reader].result
  /\ config.updated_by = "admin"

\* C35: the SafetyLoop's check of the gate state, its rollback decision and
\* its rollback write are one read-modify-write under the gate's lock: the
\* auto-rollback write is applied only if the gate is still enabled and not
\* emergency-stopped at the moment of the write, so that it never overwrites
\* an admin mutation applied after the loop's check.
C35_RollbackWriteSeesGate ==
  [][ (pc = "rollback" /\ pc' = "sleep" /\ last_iter' = "rolled_back")
        => (config.enabled /\ ~config.emergency_stop) ]_vars

\* --------------------------- an SLO evaluation beside the request threads
\* calculate_slo_metrics and get_metrics_summary walk the deque in a list
\* comprehension while request threads call record_metric; no lock guards
\* the buffer.  The iterator of a deque remembers how many items are left
\* and the state of the deque, which every append changes.  "any" stands
\* for get_metrics_summary, which keeps the points of every endpoint.
EvaluationFilters == SLOEndpoints \cup {"any"}

BeginEvaluation ==
  /\ evaluation.pc \in {"idle", "returned", "raised"}
  /\ \E endpoint \in EvaluationFilters, window_minutes \in WindowChoices :
       evaluation' = [pc |-> "iterating",
                      endpoint |-> endpoint,
                      window_start |-> now - window_minutes,
                      began |-> slo_recorded,
                      counter |-> Len(slo_buffer),
                      index |-> 0,
                      window_metrics |-> <<>>]
  /\ UNCHANGED <<gateVars, cache, last_req, served, rerank_call, tfidf,
                 fn_call, slo_buffer, slo_recorded, slo_file, limiter, lock, threads, history>>

\* the iterator's next: exhausted, or "RuntimeError: deque mutated during
\* iteration", or the next item
deque_next(began, counter) ==
  IF counter = 0 THEN "stop"
  ELSE IF slo_recorded # began THEN "raise"
  ELSE "item"

keeps(m) ==
  /\ evaluation.endpoint \in {"any", m.endpoint}
  /\ m.timestamp >= evaluation.window_start

\* one turn of "[m for m in self.metrics_buffer if ...]"
IterateNext ==
  /\ evaluation.pc = "iterating"
  /\ LET step == deque_next(evaluation.began, evaluation.counter)
         m == slo_buffer[evaluation.index + 1]
     IN  evaluation' =
           CASE step = "stop" -> [evaluation EXCEPT !.pc = "returned"]
             [] step = "raise" -> [evaluation EXCEPT !.pc = "raised"]
             [] step = "item" ->
                  [evaluation EXCEPT !.counter = @ - 1,
                                     !.index = @ + 1,
                                     !.window_metrics = IF keeps(m) THEN Append(@, m) ELSE @]
  /\ UNCHANGED <<gateVars, cache, last_req, served, rerank_call, tfidf,
                 fn_call, slo_buffer, slo_recorded, slo_file, limiter, lock, threads, history>>

InitConcurrent == InitMonitor

NextConcurrent ==
  \/ RecordMetric
  \/ BeginEvaluation
  \/ IterateNext
  \/ Elapse

SpecConcurrent == InitConcurrent /\ [][NextConcurrent]_vars

\* C36: an SLO evaluation that runs beside record_metric calls never fails
\* and computes its result over a consistent snapshot of the buffer: every
\* point it counts was recorded in full, in arrival order, and belongs to
\* its window.
C36_EvaluationNeverFails ==
  /\ evaluation.pc # "raised"
  /\ evaluation.pc = "returned"
       => \A k \in 1 .. Len(evaluation.window_metrics) :
            /\ evaluation.window_metrics[k].seq <= slo_recorded
            /\ evaluation.window_metrics[k].timestamp >= evaluation.window_start
            /\ k > 1 => evaluation.window_metrics[k - 1].seq < evaluation.window_metrics[k].seq

\* --------------------------------------------- a stop and its clearing
\* The mutators with a note of what the gate decided before the latest
\* emergency stop and whether that stop has been cleared since, nothing
\* else having changed the gate in between.
Decisions == [u \in Users |-> is_rerank_enabled_for_user(u)]

trackedVars ==
  <<metrics_buffer, user_hash, now, pc, last_iter, cache, last_req, served, rerank_call,
    tfidf, fn_call, slo_buffer, slo_recorded, slo_file, limiter, lock, threads, evaluation>>

StopTracked ==
  /\ \E by \in Actors, io \in IOOutcomes : emergency_stop(by, io)
  /\ history' = [phase |-> "stopped", before |-> Decisions,
                 was_stopped |-> config.emergency_stop]
  /\ UNCHANGED trackedVars

ClearTracked ==
  /\ \E by \in Actors, io \in IOOutcomes : clear_emergency_stop(by, io)
  /\ history' = IF history.phase = "stopped"
                  THEN [history EXCEPT !.phase = "cleared"]
                  ELSE NoHistory
  /\ UNCHANGED trackedVars

UpdateTracked ==
  /\ \E p \in Percentages, by \in Actors, io \in IOOutcomes :
       update_rollout_percentage(p, by, io)
  /\ history' = NoHistory
  /\ UNCHANGED trackedVars

InitStopClear == InitMonitor

NextStopClear ==
  \/ StopTracked
  \/ ClearTracked
  \/ UpdateTracked
  \/ Tick

SpecStopClear == InitStopClear /\ [][NextStopClear]_vars

\* C37 (as amended): emergency_stop and clear_emergency_stop change only
\* emergency_stop, last_updated and updated_by; after a stop of a gate that
\* was not stopped already, followed by its clearing with no other mutation
\* in between, is_rerank_enabled_for_user decides for every user as it did
\* before the stop.
C37_StopClearRestores ==
  /\ []( (history.phase = "cleared" /\ ~history.was_stopped)
           => \A u \in Users : is_rerank_enabled_for_user(u) = history.before[u] )
  /\ [][ last_op' \in {"emergency_stop", "clear_emergency_stop"}
           => /\ config'.rollout_percentage = config.rollout_percentage
              /\ config'.enabled = config.enabled
              /\ config'.user_seed = config.user_seed ]_vars

\* a partial rollout, stopped and cleared: the same users are served again
C37_Witness ==
  /\ history.phase = "cleared"
  /\ ~history.was_stopped
  /\ \E u \in Users : history.before[u] /\ is_rerank_enabled_for_user(u)
  /\ \E u \in Users : ~history.before[u] /\ ~is_rerank_enabled_for_user(u)

\* C37: after emergency_stop followed by clear_emergency_stop with no other
\* mutation in between, is_rerank_enabled_for_user returns for every user
\* the decision it returned before the stop.
C37_StopClearRestoresAlways ==
  history.phase = "cleared"
    => \A u \in Users : is_rerank_enabled_for_user(u) = history.before[u]

\* the marginal relevance the claim names, times 20: lambda * hybrid_score
\* - (1 - lambda) * (largest dot product with a candidate selected already)
Marginal(cand, chosen, lambda_) ==
  lambda_ * cand.hybrid_score
    - 2 * (10 - lambda_)
        * SetMax({IF cand.emb = fn_call.result[k].emb THEN 1 ELSE 0 : k \in chosen})

\* C38: after the seed, every candidate mmr_diversify selects maximizes
\* lambda * hybrid_score - (1 - lambda) * (max dot product with the
\* candidates selected already) over the candidates not yet selected, and
\* among several maximizers the one that comes first in the input order is
\* the one selected.
C38_MaximizerFirstInInputOrder ==
  Done("mmr_diversify")
    => \A k \in 2 .. Len(fn_call.result) :
         LET chosen == 1 .. (k - 1)
             taken == {fn_call.result[j].chunk_id : j \in chosen}
             left == {i \in 1 .. Len(fn_call.candidates) :
                        fn_call.candidates[i].chunk_id \notin taken}
             pick == fn_call.result[k]
         IN  \A i \in left :
               LET other == fn_call.candidates[i]
               IN  /\ Marginal(other, chosen, fn_call.lambda_)
                        <= Marginal(pick, chosen, fn_call.lambda_)
                   /\ Marginal(other, chosen, fn_call.lambda_)
                        = Marginal(pick, chosen, fn_call.lambda_)
                        => pick.chunk_id <= other.chunk_id

\* C39: when rerank_with_ce falls back because of an exception, its result is
\* the timeout fallback: the first topk of the input in descending
\* hybrid_score order, no returned candidate carrying a ce_score or a
\* composite score, also when the exception came after scores were attached.
C39_ExceptionFallbackCarriesNoScore ==
  Returned("exception")
    => /\ TopByHybrid(rerank_call.ranked, rerank_call.diversified, rerank_call.topk)
       /\ \A i \in 1 .. Len(rerank_call.ranked) :
            DOMAIN rerank_call.ranked[i].meta \cap {"ce_score", "composite_score"} = {}

\* the index a /search request of this mode retrieves from
SearchBranch(mode) == IF mode \in {"dense", "bm25"} THEN mode ELSE "hybrid"

\* C40: a cached /search response is served only to a request equivalent to
\* the one that produced it: the contexts of a cache hit were computed under
\* the mode of the current request, and the request is recorded with
\* cache_hit = true without any search collaborator having been called.
C40_CacheHitIsEquivalentRequest ==
  (last_req.endpoint = "search" /\ last_req.cache_hit)
    => /\ last_req.results = SearchBranch(last_req.mode)
       /\ last_req.recorded
       /\ ~last_req.collaborators

====
